---- MODULE Spec2Model ----
(***************************************************************************)
(* graflint: the rule runner (check) and the fix engine (fix) over an      *)
(* OCIF document, modelled from src/src/graflint/fix.ts and the runner     *)
(* source.                                                                 *)
(*                                                                         *)
(* Values are JSON-like trees in a tagged encoding:                        *)
(*   [t |-> "undef"]  [t |-> "null"]  [t |-> "num", v]  [t |-> "str", v]   *)
(*   [t |-> "arr", e |-> sequence]    [t |-> "obj", f |-> record]          *)
(* A string is named by a number (Str(3) is the string spelled "3").       *)
(* Documents live in a heap (a sequence of documents, addressed by index)  *)
(* so that copying and in-place mutation are distinguishable.              *)
(***************************************************************************)
EXTENDS Integers, Sequences, FiniteSets, TLC

\* ------------------------------------------------------------------------
\* Bounds of the model
\* ------------------------------------------------------------------------
MaxDiags == 3

\* ------------------------------------------------------------------------
\* JSON values
\* ------------------------------------------------------------------------
Undef == [t |-> "undef"]
Num(n) == [t |-> "num", v |-> n]
Str(n) == [t |-> "str", v |-> n]
Arr(s) == [t |-> "arr", e |-> s]
Obj(r) == [t |-> "obj", f |-> r]

\* Path segments are strings; these are the ones that spell an array index.
IsIndex(key) == key \in {"0", "1", "2", "3", "4", "5"}

\* parseInt(key, 10) on the path segments of the model; NaN is -99.
NaN == -99
ParseInt(key) ==
  CASE key = "0" -> 0 [] key = "1" -> 1 [] key = "2" -> 2
    [] key = "3" -> 3 [] key = "4" -> 4 [] key = "5" -> 5
    [] key = "-1" -> -1
    [] OTHER -> NaN

\* JS truthiness of a value that is undefined, null, or an object/array.
Truthy(v) == v.t \notin {"undef", "null"}

\* current[key] for a value that is neither null nor undefined.
GetProp(cur, key) ==
  CASE cur.t = "obj" -> IF key \in DOMAIN cur.f THEN cur.f[key] ELSE Undef
    [] cur.t = "arr" ->
         IF IsIndex(key) /\ ParseInt(key) < Len(cur.e)
         THEN cur.e[ParseInt(key) + 1] ELSE Undef
    [] OTHER -> Undef

SetKey(r, key, value) ==
  IF key \in DOMAIN r THEN [r EXCEPT ![key] = value]
  ELSE [k \in DOMAIN r \cup {key} |-> IF k = key THEN value ELSE r[k]]

RemoveKey(r, key) == [k \in DOMAIN r \ {key} |-> r[k]]

\* Writing array slot idx (0-based); slots skipped over become holes.
SetSlot(s, idx, value) ==
  IF idx < Len(s) THEN [s EXCEPT ![idx + 1] = value]
  ELSE [k \in 1..(idx + 1) |->
          IF k <= Len(s) THEN s[k] ELSE IF k = idx + 1 THEN value ELSE Undef]

\* s.splice(index, 1)
Splice1(s, index) ==
  LET start == IF index < 0
               THEN (IF Len(s) + index < 0 THEN 0 ELSE Len(s) + index)
               ELSE index
  IN IF start >= Len(s) THEN s
     ELSE [k \in 1..(Len(s) - 1) |-> IF k <= start THEN s[k] ELSE s[k + 1]]

\* current[lastKey] = value (module code is strict: a write to a primitive,
\* null or undefined raises TypeError).  A non-index key written on an array
\* would create an extra property, which this value domain does not carry;
\* no path of the model does that.
AssignProp(cur, key, value) ==
  CASE cur.t = "obj" -> [threw |-> FALSE, v |-> Obj(SetKey(cur.f, key, value))]
    [] cur.t = "arr" ->
         IF IsIndex(key)
         THEN [threw |-> FALSE, v |-> Arr(SetSlot(cur.e, ParseInt(key), value))]
         ELSE [threw |-> FALSE, v |-> cur]
    [] OTHER -> [threw |-> TRUE, v |-> cur]

\* if (Array.isArray(current)) { splice } else { delete current[lastKey] }
DeleteProp(cur, key) ==
  CASE cur.t = "arr" ->
         IF ParseInt(key) # NaN
         THEN [threw |-> FALSE, v |-> Arr(Splice1(cur.e, ParseInt(key)))]
         ELSE [threw |-> FALSE, v |-> cur]
    [] cur.t = "obj" -> [threw |-> FALSE, v |-> Obj(RemoveKey(cur.f, key))]
    [] cur.t \in {"null", "undef"} -> [threw |-> TRUE, v |-> cur]
    [] OTHER -> [threw |-> FALSE, v |-> cur]

\* Replace the child that GetProp(cur, key) returned.
PutProp(cur, key, child) ==
  CASE cur.t = "obj" -> Obj([cur.f EXCEPT ![key] = child])
    [] cur.t = "arr" -> Arr([cur.e EXCEPT ![ParseInt(key) + 1] = child])
    [] OTHER -> cur

\* The navigation loop over pathToParent followed by the write or delete at
\* lastKey.  op is "set" or "delete".  status: "ok", "fail" (the structured
\* {success: false}) or "throw" (a TypeError leaves the function).
RECURSIVE Navigate(_, _, _, _, _)
Navigate(cur, path, i, op, value) ==
  IF i = Len(path)
  THEN LET w == IF op = "set" THEN AssignProp(cur, path[i], value)
                ELSE DeleteProp(cur, path[i])
       IN [status |-> IF w.threw THEN "throw" ELSE "ok", v |-> w.v]
  ELSE IF ~Truthy(cur) THEN [status |-> "throw", v |-> cur]
  ELSE LET child == GetProp(cur, path[i])
       IN IF child = Undef THEN [status |-> "fail", v |-> cur]
          ELSE LET r == Navigate(child, path, i + 1, op, value)
               IN IF r.status = "ok"
                  THEN [status |-> "ok", v |-> PutProp(cur, path[i], r.v)]
                  ELSE [status |-> r.status, v |-> cur]

\* ------------------------------------------------------------------------
\* Documents
\* ------------------------------------------------------------------------
OcifUri == Str(0)

Doc(nodes, relations, resources) ==
  [ocif |-> OcifUri, nodes |-> nodes, relations |-> relations,
   resources |-> resources, schemas |-> Undef]

\* The collection a DiagnosticTarget type or an insert collection names.
CollectionOf(type) ==
  CASE type \in {"node", "nodes"} -> "nodes"
    [] type \in {"relation", "relations"} -> "relations"
    [] type \in {"resource", "resources"} -> "resources"
    [] OTHER -> "none"

\* coll?.find((x) => x.id === id), as a 1-based index; 0 when not found.
FindLastIndex(coll, id) ==
  IF coll.t # "arr" THEN 0
  ELSE LET hits == {i \in 1..Len(coll.e) : GetProp(coll.e[i], "id") = id}
       IN IF hits = {} THEN 0 ELSE CHOOSE i \in hits : \A j \in hits : i >= j

FindIndex(coll, id) ==
  IF coll.t # "arr" THEN 0
  ELSE LET hits == {i \in 1..Len(coll.e) : GetProp(coll.e[i], "id") = id}
       IN IF hits = {} THEN 0 ELSE CHOOSE i \in hits : \A j \in hits : i <= j

\* coll?.filter((x) => x.id !== id)
FilterOutId(coll, id) ==
  IF coll.t # "arr" THEN coll
  ELSE Arr(SelectSeq(coll.e, LAMBDA x : GetProp(x, "id") # id))

\* ------------------------------------------------------------------------
\* The heap of documents
\* ------------------------------------------------------------------------
StructuredCloneAliased(heap, addr) == [heap |-> heap, addr |-> addr]

\* structuredClone(canvas): a fresh object holding a deep copy.
StructuredClone(heap, addr) ==
  [heap |-> Append(heap, heap[addr]), addr |-> Len(heap) + 1]

Result(success, canvas, heap) ==
  [success |-> success, threw |-> FALSE, canvas |-> canvas, heap |-> heap]

Thrown(canvas, heap) ==
  [success |-> FALSE, threw |-> TRUE, canvas |-> canvas, heap |-> heap]

\* ------------------------------------------------------------------------
\* Changes (fix.ts)
\* ------------------------------------------------------------------------
\* The element a target names: its collection and its 1-based index (0 when
\* the collection is absent or holds no element with the id).
TargetIndex(doc, target) ==
  IF CollectionOf(target.type) = "none" THEN 0
  ELSE FindIndex(doc[CollectionOf(target.type)], target.id)

WithElement(heap, addr, coll, i, element) ==
  [heap EXCEPT ![addr][coll] = Arr([heap[addr][coll].e EXCEPT ![i] = element])]

\* What applySetChange and applyDeleteChange return once the navigation
\* through element i of coll has ended with r.
Navigated(heap, canvas, newCanvas, coll, i, r) ==
  CASE r.status = "throw" -> Thrown(canvas, heap)
    [] r.status = "fail" -> Result(FALSE, canvas, heap)
    [] OTHER -> Result(TRUE, newCanvas,
                       WithElement(heap, newCanvas, coll, i, r.v))

ApplySetChange(heap, canvas, target, value) ==
  LET c == StructuredClone(heap, canvas)
      newCanvas == c.addr
      doc == c.heap[newCanvas]
      coll == CollectionOf(target.type)
      i == TargetIndex(doc, target)
  IN IF i = 0 THEN Result(FALSE, canvas, c.heap)
     ELSE IF Len(target.path) = 0 THEN Result(FALSE, canvas, c.heap)
     ELSE Navigated(c.heap, canvas, newCanvas, coll, i,
                    Navigate(doc[coll].e[i], target.path, 1, "set", value))

ApplyDeleteChangeKeeping(heap, canvas, target) ==
  LET c == StructuredClone(heap, canvas)
  IN Result(TRUE, c.addr, c.heap)

ApplyDeleteChange(heap, canvas, target) ==
  LET c == StructuredClone(heap, canvas)
      newCanvas == c.addr
      doc == c.heap[newCanvas]
      coll == CollectionOf(target.type)
      i == TargetIndex(doc, target)
  IN IF Len(target.path) = 0
     THEN IF coll = "none" THEN Result(TRUE, newCanvas, c.heap)
          ELSE Result(TRUE, newCanvas,
                      [c.heap EXCEPT ![newCanvas][coll] =
                                        FilterOutId(doc[coll], target.id)])
     ELSE IF i = 0 THEN Result(FALSE, canvas, c.heap)
     ELSE Navigated(c.heap, canvas, newCanvas, coll, i,
                    Navigate(doc[coll].e[i], target.path, 1, "delete", Undef))

ApplyInsertChangeAtFront(heap, canvas, collection, element) ==
  LET c == StructuredClone(heap, canvas)
      newCanvas == c.addr
      doc == c.heap[newCanvas]
      coll == CollectionOf(collection)
  IN IF coll = "none" THEN Result(TRUE, newCanvas, c.heap)
     ELSE LET old == IF doc[coll].t = "arr" THEN doc[coll].e ELSE <<>>
          IN Result(TRUE, newCanvas,
                    [c.heap EXCEPT ![newCanvas][coll] =
                                      Arr(<<element>> \o old)])

ApplyInsertChange(heap, canvas, collection, element) ==
  LET c == StructuredClone(heap, canvas)
      newCanvas == c.addr
      doc == c.heap[newCanvas]
      coll == CollectionOf(collection)
  IN IF coll = "none" THEN Result(TRUE, newCanvas, c.heap)
     ELSE LET old == IF doc[coll].t = "arr" THEN doc[coll].e ELSE <<>>
          IN Result(TRUE, newCanvas,
                    [c.heap EXCEPT ![newCanvas][coll] =
                                      Arr(Append(old, element))])

\* applyMoveChange and applyResizeChange differ only in the field written.
ApplyNodeFieldChange(heap, canvas, nodeId, field, to) ==
  LET c == StructuredClone(heap, canvas)
      newCanvas == c.addr
      doc == c.heap[newCanvas]
      i == FindIndex(doc.nodes, nodeId)
  IN IF i = 0 THEN Result(FALSE, canvas, c.heap)
     ELSE Result(TRUE, newCanvas,
                 WithElement(c.heap, newCanvas, "nodes", i,
                             Obj(SetKey(doc.nodes.e[i].f, field, to))))

ApplyMoveChange(heap, canvas, nodeId, to) ==
  ApplyNodeFieldChange(heap, canvas, nodeId, "position", to)

ApplyResizeChange(heap, canvas, nodeId, to) ==
  ApplyNodeFieldChange(heap, canvas, nodeId, "size", to)

\* The switch has no default: for any other type applyChange returns
\* undefined, and applyFix raises TypeError reading result.success.
ApplyChange(heap, canvas, change) ==
  CASE change.type = "set" ->
         ApplySetChange(heap, canvas, change.target, change.value)
    [] change.type = "delete" -> ApplyDeleteChange(heap, canvas, change.target)
    [] change.type = "insert" ->
         ApplyInsertChange(heap, canvas, change.collection, change.element)
    [] change.type = "move" ->
         ApplyMoveChange(heap, canvas, change.nodeId, change.to)
    [] change.type = "resize" ->
         ApplyResizeChange(heap, canvas, change.nodeId, change.to)
    [] OTHER -> Thrown(canvas, heap)

HasFix(diagnostic) == "fix" \in DOMAIN diagnostic

\* The for loop of applyFix from change i on; canvas is applyFix's argument,
\* which every failure returns.
RECURSIVE ApplyChanges(_, _, _, _, _)
RECURSIVE ChangeApplied(_, _, _, _)

ApplyChanges(heap, canvas, currentCanvas, changes, i) ==
  IF i > Len(changes) THEN Result(TRUE, currentCanvas, heap)
  ELSE ChangeApplied(ApplyChange(heap, currentCanvas, changes[i]),
                     canvas, changes, i)

\* Lines 98-101, given the result of applyChange for change i.
ChangeAppliedToArgument(result, canvas, changes, i) ==
  IF result.threw THEN Thrown(canvas, result.heap)
  ELSE IF ~result.success THEN Result(FALSE, canvas, result.heap)
  ELSE ApplyChanges(result.heap, canvas, canvas, changes, i + 1)

ChangeApplied(result, canvas, changes, i) ==
  IF result.threw THEN Thrown(canvas, result.heap)
  ELSE IF ~result.success THEN Result(FALSE, canvas, result.heap)
  ELSE ApplyChanges(result.heap, canvas, result.canvas, changes, i + 1)

ApplyFix(heap, canvas, diagnostic) ==
  IF ~HasFix(diagnostic) THEN Result(FALSE, canvas, heap)
  ELSE LET c == StructuredClone(heap, canvas)
       IN ApplyChanges(c.heap, canvas, c.addr, diagnostic.fix.changes, 1)

\* ------------------------------------------------------------------------
\* Documents and diagnostic objects the operations are called with
\* ------------------------------------------------------------------------
Node(id, x, y) ==
  Obj([id |-> Str(id), position |-> Arr(<<Num(x), Num(y)>>)])

EdgeType == 1

EdgeRelation(id, start, end) ==
  Obj([id |-> Str(id),
       data |-> Arr(<<Obj([type |-> Str(EdgeType), start |-> Str(start),
                           end |-> Str(end)])>>)])

\* Two nodes and an edge relation whose end names no element; no resources.
DocA ==
  Doc(Arr(<<Node(1, 100, 100), Node(2, 103, 200)>>),
      Arr(<<EdgeRelation(3, 1, 9)>>), Undef)

\* A document that carries only the schema uri.
DocB == Doc(Undef, Undef, Undef)

Documents == {DocA, DocB}

Move(id, x, y) ==
  [type |-> "move", nodeId |-> Str(id), to |-> Arr(<<Num(x), Num(y)>>)]

Target(type, id, path) == [type |-> type, id |-> Str(id), path |-> path]

Diagnostic(ruleId, severity) == [ruleId |-> ruleId, severity |-> severity]

WithFix(ruleId, severity, changes) ==
  [ruleId |-> ruleId, severity |-> severity,
   fix |-> [changes |-> changes, safe |-> TRUE]]

\* The diagnostic objects a caller holds; a list passed to fix holds
\* references (indices) to them, so one object can occur at two positions and
\* two objects can have the same content (2 and 9).  Object 4 needs node 5
\* (which 3 and 5 insert) and inserts node 6; object 5 needs node 6: 4 and 5
\* wait on each other unless 3 is applied.  Object 6 raises in its second
\* Change once its first has resolved.  Object 8 resolves its first Change on
\* DocA and never its second.  Object 10 inserts a node and then moves it;
\* object 11 moves that node.
DiagObjects ==
  << Diagnostic(1, "error"),
     WithFix(2, "warning", <<Move(1, 100, 200)>>),
     WithFix(3, "warning",
             <<[type |-> "insert", collection |-> "nodes",
                element |-> Node(5, 0, 0)]>>),
     WithFix(4, "error",
             <<Move(1, 7, 7), Move(5, 8, 8),
               [type |-> "insert", collection |-> "nodes",
                element |-> Node(6, 0, 0)]>>),
     WithFix(5, "warning",
             <<Move(6, 4, 4),
               [type |-> "insert", collection |-> "nodes",
                element |-> Node(5, 0, 0)]>>),
     WithFix(6, "error",
             <<Move(1, 9, 9),
               [type |-> "set", target |-> Target("node", 1, <<"id", "x">>),
                value |-> Num(0)]>>),
     WithFix(7, "error",
             <<[type |-> "delete", target |-> Target("relation", 9, <<>>)]>>),
     WithFix(8, "warning",
             <<[type |-> "set",
                target |-> Target("relation", 3, <<"data", "0", "end">>),
                value |-> Str(2)],
               [type |-> "set",
                target |-> Target("node", 1, <<"data", "0", "start">>),
                value |-> Str(2)]>>),
     WithFix(2, "warning", <<Move(1, 100, 200)>>),
     WithFix(10, "warning",
             <<[type |-> "insert", collection |-> "nodes",
                element |-> Node(7, 0, 0)],
               Move(7, 3, 3)>>),
     WithFix(11, "error", <<Move(7, 1, 1)>>) >>

DiagRefs == 1..Len(DiagObjects)

\* Chain diagnostic k can resolve only once chain diagnostic k - 1 has been
\* applied: it moves the node that k - 1 inserted, inserts its own node and
\* deletes the previous one.
ChainNode(k) == Node(10 + k, 0, 0)

ChainDiag(k) ==
  IF k = 1
  THEN WithFix(9, "warning",
               <<[type |-> "insert", collection |-> "nodes",
                  element |-> ChainNode(1)]>>)
  ELSE WithFix(9, "warning",
               <<Move(10 + k - 1, 1, 1),
                 [type |-> "insert", collection |-> "nodes",
                  element |-> ChainNode(k)],
                 [type |-> "delete",
                  target |-> Target("node", 10 + k - 1, <<>>)]>>)

ChainRef(k) == Len(DiagObjects) + k

\* The chain of length n in reverse dependency order: n, n - 1, ..., 1.
ReverseChain(n) == [i \in 1..n |-> ChainRef(n + 1 - i)]

MaxIterations == 100

VARIABLES
  checked         \* the diagnostics the latest check call returned, or
                  \* the ones the caller handed to createOverlay

\* The diagnostics the latest check call returned are objects of their own:
\* the k-th of them is referred to by CheckedRef(k).
CheckedRef(k) == ChainRef(MaxIterations + 1) + k

\* The diagnostic object a reference points to.
Deref(ref) ==
  IF ref <= Len(DiagObjects) THEN DiagObjects[ref]
  ELSE IF ref <= ChainRef(MaxIterations + 1)
  THEN ChainDiag(ref - Len(DiagObjects))
  ELSE checked[ref - ChainRef(MaxIterations + 1)]

RECURSIVE SeqsUpTo(_, _)
SeqsUpTo(S, n) ==
  IF n = 0 THEN {<<>>}
  ELSE LET shorter == SeqsUpTo(S, n - 1)
       IN shorter \cup {Append(q, x) : q \in shorter, x \in S}

DiagLists == SeqsUpTo(DiagRefs, MaxDiags)

\* ------------------------------------------------------------------------
\* fix (fix.ts): the activation of one call, as a record of its locals
\* ------------------------------------------------------------------------
VARIABLES
  pc,             \* position of the caller / of the running call
  heap,           \* the documents alive; heap[canvas] is the caller's
  canvas,         \* address of the document the caller passed
  diagnostics,    \* the list the caller passed (references)
  currentCanvas,  \* address of the working document
  applied, failed, remaining,
  fixable, stillFixable,
  madeProgress, maxIterations,
  idx,            \* position of the for loop in fixable
  rounds,         \* history: rounds begun
  last,           \* history: the latest loop iteration and its outcome
  thrown,         \* history: the diagnostics whose applyFix raised
  input           \* history: the document value passed by the caller (the
                  \* rule, after a registerRule call that is followed up)

fixVars ==
  <<pc, heap, canvas, diagnostics, currentCanvas, applied, failed, remaining,
    fixable, stillFixable, madeProgress, maxIterations, idx, rounds, last,
    thrown, input>>

Includes(list, x) == \E i \in DOMAIN list : list[i] = x

NoFilter(diags) == diags

\* diagnostics.filter((d) => d.fix)
Fixable(diags) == SelectSeq(diags, LAMBDA d : HasFix(Deref(d)))

\* diagnostics.filter((d) => !d.fix)
Unfixable(diags) == SelectSeq(diags, LAMBDA d : ~HasFix(Deref(d)))

\* Only the caller's document and the working document stay referenced once
\* an applyFix call has returned; the other copies are garbage.
Collect(h, cur) ==
  IF cur = 1 THEN [heap |-> <<h[1]>>, addr |-> 1]
  ELSE [heap |-> <<h[1], h[cur]>>, addr |-> 2]

NoAttempt == [ref |-> 0, outcome |-> "none", round |-> 0]

Attempted(s, d, outcome) == [ref |-> d, outcome |-> outcome, round |-> s.rounds]

\* Lines 24-36.
FixEnter(doc, diags) ==
  LET c == StructuredClone(<<doc>>, 1)
      g == Collect(c.heap, c.addr)
  IN [pc |-> "while", heap |-> g.heap, canvas |-> 1, diagnostics |-> diags,
      currentCanvas |-> g.addr, applied |-> <<>>, failed |-> <<>>,
      remaining |-> Unfixable(diags), fixable |-> Fixable(diags),
      stillFixable |-> <<>>, madeProgress |-> TRUE,
      maxIterations |-> MaxIterations, idx |-> 0, rounds |-> 0,
      last |-> NoAttempt, thrown |-> {}, input |-> doc]

GuardWithoutCeiling(progress, iterations) == progress

\* while (madeProgress && maxIterations > 0)
LoopGuard(progress, iterations) == progress /\ iterations > 0

\* Lines 39-42.
RoundBegin(s) ==
  [s EXCEPT !.madeProgress = FALSE, !.maxIterations = @ - 1,
            !.stillFixable = <<>>, !.idx = 1, !.pc = "for", !.rounds = @ + 1]

SuccessPrepended(s, d, result) ==
  LET g == Collect(result.heap, result.canvas)
  IN [s EXCEPT !.heap = g.heap, !.currentCanvas = g.addr,
               !.applied = <<d>> \o @, !.madeProgress = TRUE,
               !.last = Attempted(s, d, "applied")]

SuccessWithoutProgress(s, d, result) ==
  LET g == Collect(result.heap, result.canvas)
  IN [s EXCEPT !.heap = g.heap, !.currentCanvas = g.addr,
               !.applied = Append(@, d), !.last = Attempted(s, d, "applied")]

\* Lines 51-54.
OnSuccess(s, d, result) ==
  LET g == Collect(result.heap, result.canvas)
  IN [s EXCEPT !.heap = g.heap, !.currentCanvas = g.addr,
               !.applied = Append(@, d), !.madeProgress = TRUE,
               !.last = Attempted(s, d, "applied")]

UnresolvedMarkedFailed(s, d, result) ==
  LET g == Collect(result.heap, s.currentCanvas)
  IN [s EXCEPT !.heap = g.heap, !.currentCanvas = g.addr,
               !.failed = Append(@, d),
               !.last = Attempted(s, d, "unresolved")]

\* Lines 55-58.
OnUnresolved(s, d, result) ==
  LET g == Collect(result.heap, s.currentCanvas)
  IN [s EXCEPT !.heap = g.heap, !.currentCanvas = g.addr,
               !.stillFixable = Append(@, d),
               !.last = Attempted(s, d, "unresolved")]

ThrowRequeued(s, d, result) ==
  LET g == Collect(result.heap, s.currentCanvas)
  IN [s EXCEPT !.heap = g.heap, !.currentCanvas = g.addr,
               !.stillFixable = Append(@, d),
               !.last = Attempted(s, d, "threw"), !.thrown = @ \cup {d}]

\* Lines 59-62.
OnThrow(s, d, result) ==
  LET g == Collect(result.heap, s.currentCanvas)
  IN [s EXCEPT !.heap = g.heap, !.currentCanvas = g.addr,
               !.failed = Append(@, d), !.last = Attempted(s, d, "threw"),
               !.thrown = @ \cup {d}]

\* Lines 51-62, given what applyFix did.
FixApplied(s, d, result) ==
  IF result.threw THEN OnThrow(s, d, result)
  ELSE IF result.success THEN OnSuccess(s, d, result)
  ELSE OnUnresolved(s, d, result)

\* One iteration of the for loop, lines 44-63.
Attempt(s) ==
  LET d == s.fixable[s.idx]
      next == [s EXCEPT !.idx = @ + 1]
  IN IF Includes(s.applied, d) \/ Includes(s.failed, d)
     THEN [next EXCEPT !.last = Attempted(s, d, "skipped")]
     ELSE FixApplied(next, d, ApplyFix(s.heap, s.currentCanvas, Deref(d)))

\* Lines 66-67.
RoundEndWithoutRequeue(s) == [s EXCEPT !.fixable = <<>>, !.pc = "while"]

RoundEnd(s) == [s EXCEPT !.fixable = s.stillFixable, !.pc = "while"]

\* fixable.filter((d) => !applied.includes(d)), line 71.
FinalFailed(pending, done) == SelectSeq(pending, LAMBDA d : ~Includes(done, d))

\* Lines 71-78.
Finish(s) ==
  [s EXCEPT !.failed = @ \o FinalFailed(s.fixable, s.applied),
            !.pc = "return"]

Frame ==
  [pc |-> pc, heap |-> heap, canvas |-> canvas, diagnostics |-> diagnostics,
   currentCanvas |-> currentCanvas, applied |-> applied, failed |-> failed,
   remaining |-> remaining, fixable |-> fixable,
   stillFixable |-> stillFixable, madeProgress |-> madeProgress,
   maxIterations |-> maxIterations, idx |-> idx, rounds |-> rounds,
   last |-> last, thrown |-> thrown, input |-> input]

Install(s) ==
  /\ pc' = s.pc
  /\ heap' = s.heap
  /\ canvas' = s.canvas
  /\ diagnostics' = s.diagnostics
  /\ currentCanvas' = s.currentCanvas
  /\ applied' = s.applied
  /\ failed' = s.failed
  /\ remaining' = s.remaining
  /\ fixable' = s.fixable
  /\ stillFixable' = s.stillFixable
  /\ madeProgress' = s.madeProgress
  /\ maxIterations' = s.maxIterations
  /\ idx' = s.idx
  /\ rounds' = s.rounds
  /\ last' = s.last
  /\ thrown' = s.thrown
  /\ input' = s.input

\* The next step of a running call.
FixStep(s) ==
  CASE s.pc = "while" ->
         IF LoopGuard(s.madeProgress, s.maxIterations) THEN RoundBegin(s)
         ELSE Finish(s)
    [] s.pc = "for" ->
         IF s.idx <= Len(s.fixable) THEN Attempt(s) ELSE RoundEnd(s)
    [] OTHER -> s

\* The call run to its return.
RECURSIVE FixRun(_)
FixRun(s) == IF s.pc = "return" THEN s ELSE FixRun(FixStep(s))

\* fix(canvas, diagnostics) as a function: the returned FixResult.
Fix(doc, diags) ==
  LET s == FixRun(FixEnter(doc, diags))
  IN [canvas |-> s.heap[s.currentCanvas], applied |-> s.applied,
      failed |-> s.failed, remaining |-> s.remaining]

Idle ==
  [pc |-> "idle", heap |-> <<>>, canvas |-> 0, diagnostics |-> <<>>,
   currentCanvas |-> 0, applied |-> <<>>, failed |-> <<>>,
   remaining |-> <<>>, fixable |-> <<>>, stillFixable |-> <<>>,
   madeProgress |-> FALSE, maxIterations |-> 0, idx |-> 0, rounds |-> 0,
   last |-> NoAttempt, thrown |-> {}, input |-> DocB]

\* ------------------------------------------------------------------------
\* Rules, the registry and check (the runner)
\* ------------------------------------------------------------------------
GroupType == 2
ParentChildType == 3

IsEdgeExtension(ext) == GetProp(ext, "type") = Str(EdgeType)
IsGroupExtension(ext) == GetProp(ext, "type") = Str(GroupType)
IsParentChildExtension(ext) == GetProp(ext, "type") = Str(ParentChildType)

\* createContext(document, options); the lookups are the operators below.
CreateContext(document, options) == [document |-> document, options |-> options]

GetNode(ctx, id) == FindIndex(ctx.document.nodes, id)
GetRelation(ctx, id) == FindIndex(ctx.document.relations, id)
GetResource(ctx, id) == FindIndex(ctx.document.resources, id)

\* !ctx.getNode(id) && !ctx.getRelation(id)
Dangling(ctx, id) == GetNode(ctx, id) = 0 /\ GetRelation(ctx, id) = 0

ElementTarget(type, id) == [type |-> type, id |-> id, path |-> <<>>]

DanglingDiag(relation, what, ref, withFix) ==
  LET base == [ruleId |-> "structural/no-dangling-refs", severity |-> "error",
               message |-> <<what, ref>>,
               targets |-> <<ElementTarget("relation", GetProp(relation, "id"))>>]
  IN IF withFix
     THEN [ruleId |-> base.ruleId, severity |-> base.severity,
           message |-> base.message, targets |-> base.targets,
           fix |-> [changes |->
                      <<[type |-> "delete",
                         target |-> ElementTarget("relation",
                                                  GetProp(relation, "id"))]>>,
                    safe |-> FALSE]]
     ELSE base

\* The diagnostics of one extension block of a relation (lines 33-111).
DanglingOfExtension(relation, ext, ctx) ==
  (IF IsEdgeExtension(ext)
   THEN (IF Dangling(ctx, GetProp(ext, "start"))
         THEN <<DanglingDiag(relation, "Edge start", GetProp(ext, "start"), TRUE)>>
         ELSE <<>>)
        \o (IF Dangling(ctx, GetProp(ext, "end"))
            THEN <<DanglingDiag(relation, "Edge end", GetProp(ext, "end"), TRUE)>>
            ELSE <<>>)
   ELSE <<>>)
  \o (IF IsGroupExtension(ext)
      THEN LET members == GetProp(ext, "members").e
               bad == SelectSeq(members, LAMBDA m : Dangling(ctx, m))
           IN [k \in 1..Len(bad) |->
                 DanglingDiag(relation, "Group member", bad[k], FALSE)]
      ELSE <<>>)
  \o (IF IsParentChildExtension(ext)
      THEN (IF GetProp(ext, "parent") # Undef
               /\ Dangling(ctx, GetProp(ext, "parent"))
            THEN <<DanglingDiag(relation, "Parent", GetProp(ext, "parent"), FALSE)>>
            ELSE <<>>)
           \o (IF Dangling(ctx, GetProp(ext, "child"))
               THEN <<DanglingDiag(relation, "Child", GetProp(ext, "child"), FALSE)>>
               ELSE <<>>)
      ELSE <<>>)

RECURSIVE DanglingFrom(_, _, _, _)
DanglingFrom(relation, exts, i, ctx) ==
  IF i > Len(exts) THEN <<>>
  ELSE DanglingOfExtension(relation, exts[i], ctx)
         \o DanglingFrom(relation, exts, i + 1, ctx)

\* noDanglingRefs.check; a group block without a members array raises.
NoDanglingRefsCheck(relation, ctx) ==
  LET data == GetProp(relation, "data")
      exts == IF data.t = "arr" THEN data.e ELSE <<>>
      broken == \E i \in DOMAIN exts :
                  IsGroupExtension(exts[i])
                  /\ GetProp(exts[i], "members").t # "arr"
  IN IF broken THEN [threw |-> TRUE, diagnostics |-> <<>>]
     ELSE [threw |-> FALSE, diagnostics |-> DanglingFrom(relation, exts, 1, ctx)]

\* validResourceRefs.filter and .check
ValidResourceRefsFilter(node) == GetProp(node, "resource") # Undef

ValidResourceRefsCheck(node, ctx) ==
  LET resource == GetProp(node, "resource")
  IN [threw |-> FALSE,
      diagnostics |->
        IF Truthy(resource) /\ GetResource(ctx, resource) = 0
        THEN <<[ruleId |-> "structural/valid-resource-refs",
                severity |-> "error",
                message |-> <<"Resource", resource>>,
                targets |-> <<[type |-> "node", id |-> GetProp(node, "id"),
                               path |-> <<"resource">>]>>]>>
        ELSE <<>>]

\* uniqueIds.check(document).  seen is the Map of the ids met so far, in
\* insertion order: for each id the type that met it first, and whether that
\* first occurrence still has to be reported.
DuplicateDiag(type, id, alsoUsedBy) ==
  [ruleId |-> "structural/unique-ids", severity |-> "error",
   message |-> <<"Duplicate ID", id, alsoUsedBy>>,
   targets |-> <<ElementTarget(type, id)>>]

\* The elements the three loops visit, in order: nodes, relations, resources.
IdEntries(document) ==
  LET of(coll, type) ==
        IF document[coll].t = "arr"
        THEN [k \in 1..Len(document[coll].e) |->
                [type |-> type, id |-> GetProp(document[coll].e[k], "id")]]
        ELSE <<>>
  IN of("nodes", "node") \o of("relations", "relation")
       \o of("resources", "resource")

SeenIndex(seen, id) ==
  IF \E k \in DOMAIN seen : seen[k].id = id
  THEN CHOOSE k \in DOMAIN seen : seen[k].id = id
  ELSE 0

RECURSIVE UniqueIdsFrom(_, _, _, _)
UniqueIdsFromLaterOnly(entries, i, seen, acc) ==
  IF i > Len(entries) THEN acc
  ELSE LET entry == entries[i]
           at == SeenIndex(seen, entry.id)
       IN IF at # 0
          THEN UniqueIdsFrom(
                 entries, i + 1, seen,
                 acc \o <<DuplicateDiag(entry.type, entry.id, seen[at].type)>>)
          ELSE UniqueIdsFrom(
                 entries, i + 1,
                 Append(seen, [id |-> entry.id, type |-> entry.type,
                               first |-> TRUE]),
                 acc)

UniqueIdsFrom(entries, i, seen, acc) ==
  IF i > Len(entries) THEN acc
  ELSE LET entry == entries[i]
           at == SeenIndex(seen, entry.id)
       IN IF at # 0
          THEN UniqueIdsFrom(
                 entries, i + 1, [seen EXCEPT ![at].first = FALSE],
                 acc \o <<DuplicateDiag(entry.type, entry.id, seen[at].type)>>
                     \o (IF seen[at].first
                         THEN <<DuplicateDiag(seen[at].type, entry.id,
                                              entry.type)>>
                         ELSE <<>>))
          ELSE UniqueIdsFrom(
                 entries, i + 1,
                 Append(seen, [id |-> entry.id, type |-> entry.type,
                               first |-> TRUE]),
                 acc)

UniqueIdsCheck(document) ==
  [threw |-> FALSE,
   diagnostics |-> UniqueIdsFrom(IdEntries(document), 1, <<>>, <<>>)]

\* node.position ?? [0, 0] and node.size ?? [0, 0], component k (1-based).
Coord(node, field, k) ==
  IF GetProp(node, field).t = "arr" THEN GetProp(node, field).e[k].v ELSE 0

\* node.position !== undefined && node.size !== undefined
HasGeometry(node) ==
  GetProp(node, "position") # Undef /\ GetProp(node, "size") # Undef

Abs(n) == IF n < 0 THEN -n ELSE n
Max(a, b) == IF a >= b THEN a ELSE b
Min(a, b) == IF a <= b THEN a ELSE b

GetNodeEdges(node) ==
  [left |-> Coord(node, "position", 1),
   right |-> Coord(node, "position", 1) + Coord(node, "size", 1),
   top |-> Coord(node, "position", 2),
   bottom |-> Coord(node, "position", 2) + Coord(node, "size", 2)]

VerticalChecks ==
  << <<"left", "left">>, <<"left", "right">>,
     <<"right", "left">>, <<"right", "right">> >>

HorizontalChecks ==
  << <<"top", "top">>, <<"top", "bottom">>,
     <<"bottom", "top">>, <<"bottom", "bottom">> >>

DefaultThreshold == 5

\* (ctx.options.threshold as number) ?? 5
Threshold(ctx) ==
  IF \E k \in DOMAIN ctx.options : ctx.options[k][1] = "threshold"
  THEN ctx.options[CHOOSE k \in DOMAIN ctx.options :
                     ctx.options[k][1] = "threshold"][2]
  ELSE DefaultThreshold

NoMatch ==
  [found |-> FALSE, edge |-> "", otherEdge |-> "", otherId |-> Undef,
   diff |-> 0, targetPosition |-> 0]

\* The body of the loop over one orientation's edge pairs (lines 82-93):
\* mine is this node's edge, theirs the other node's.
BetterMatch(best, pair, otherId, mine, theirs, threshold) ==
  IF Abs(mine - theirs) > 0 /\ Abs(mine - theirs) <= threshold
     /\ (~best.found \/ Abs(mine - theirs) < best.diff)
  THEN [found |-> TRUE, edge |-> pair[1], otherEdge |-> pair[2],
        otherId |-> otherId, diff |-> Abs(mine - theirs),
        targetPosition |-> theirs]
  ELSE best

\* The two nested loops over otherNodes and over the edge pairs of one
\* orientation, from other j, pair k on; best is the best match so far.
RECURSIVE BestMatch(_, _, _, _, _, _, _)
BestMatch(best, edges, others, j, checks, k, threshold) ==
  IF j > Len(others) THEN best
  ELSE IF k > Len(checks)
  THEN BestMatch(best, edges, others, j + 1, checks, 1, threshold)
  ELSE BestMatch(BetterMatch(best, checks[k], GetProp(others[j], "id"),
                             edges[checks[k][1]],
                             GetNodeEdges(others[j])[checks[k][2]], threshold),
                 edges, others, j, checks, k + 1, threshold)

AlignDiag(id, match, orientation, to) ==
  [ruleId |-> "visual/nodes-aligned", severity |-> "warning",
   message |-> <<match.edge, match.diff, match.otherEdge, match.otherId>>,
   targets |-> <<ElementTarget("node", id)>>,
   visual |-> <<[type |-> "guideline", orientation |-> orientation,
                 position |-> match.targetPosition, style |-> "snap"]>>,
   fix |-> [changes |-> <<[type |-> "move", nodeId |-> id, to |-> to]>>,
            safe |-> TRUE]]

\* Lines 120-190: the reports for the best matches found.
AlignReports(id, pos, size, bestVerticalMatch, bestHorizontalMatch) ==
  (IF bestVerticalMatch.found
   THEN <<AlignDiag(id, bestVerticalMatch, "vertical",
                    Arr(<<Num(IF bestVerticalMatch.edge = "left"
                              THEN bestVerticalMatch.targetPosition
                              ELSE bestVerticalMatch.targetPosition - size[1]),
                          Num(pos[2])>>))>>
   ELSE <<>>)
  \o (IF bestHorizontalMatch.found
      THEN <<AlignDiag(id, bestHorizontalMatch, "horizontal",
                       Arr(<<Num(pos[1]),
                             Num(IF bestHorizontalMatch.edge = "top"
                                 THEN bestHorizontalMatch.targetPosition
                                 ELSE bestHorizontalMatch.targetPosition
                                        - size[2])>>))>>
      ELSE <<>>)

\* The nodes of the document as a sequence (document.nodes ?? []).
NodesOf(ctx) ==
  IF ctx.document.nodes.t = "arr" THEN ctx.document.nodes.e ELSE <<>>

\* Lines 62-64.
OtherNodes(id, ctx) ==
  SelectSeq(NodesOf(ctx), LAMBDA n : GetProp(n, "id") # id /\ HasGeometry(n))

\* nodesAligned.filter and .check
NodesAlignedFilter(node) == HasGeometry(node)

NodesAlignedCheck(node, ctx) ==
  [threw |-> FALSE,
   diagnostics |->
     AlignReports(
       GetProp(node, "id"),
       <<Coord(node, "position", 1), Coord(node, "position", 2)>>,
       <<Coord(node, "size", 1), Coord(node, "size", 2)>>,
       BestMatch(NoMatch, GetNodeEdges(node),
                 OtherNodes(GetProp(node, "id"), ctx), 1,
                 VerticalChecks, 1, Threshold(ctx)),
       BestMatch(NoMatch, GetNodeEdges(node),
                 OtherNodes(GetProp(node, "id"), ctx), 1,
                 HorizontalChecks, 1, Threshold(ctx)))]

GetNodeBounds(node) ==
  [x |-> Coord(node, "position", 1), y |-> Coord(node, "position", 2),
   width |-> Coord(node, "size", 1), height |-> Coord(node, "size", 2)]

RectsOverlap(a, b) ==
  /\ ~(a.x + a.width <= b.x \/ b.x + b.width <= a.x)
  /\ ~(a.y + a.height <= b.y \/ b.y + b.height <= a.y)

GetOverlapArea(a, b) ==
  Max(0, Min(a.x + a.width, b.x + b.width) - Max(a.x, b.x))
    * Max(0, Min(a.y + a.height, b.y + b.height) - Max(a.y, b.y))

OverlapDiag(id, otherId, a, b) ==
  [ruleId |-> "visual/no-overlapping-nodes", severity |-> "warning",
   message |-> <<"overlaps", otherId, GetOverlapArea(a, b)>>,
   targets |-> <<ElementTarget("node", id), ElementTarget("node", otherId)>>,
   visual |-> <<[type |-> "highlight",
                 bounds |->
                   [x |-> Max(a.x, b.x), y |-> Max(a.y, b.y),
                    width |-> Min(a.x + a.width, b.x + b.width)
                                - Max(a.x, b.x),
                    height |-> Min(a.y + a.height, b.y + b.height)
                                 - Max(a.y, b.y)],
                 style |-> "warning"]>>,
   related |-> <<[target |-> ElementTarget("node", otherId),
                  message |-> "Overlapping node"]>>]

\* The filter of lines 80-88 and the skip of lines 94-96: the positions of
\* the later nodes that the node is compared with and overlaps.
Overlapping(id, nodeBounds, nodes, at) ==
  SelectSeq([k \in 1..Len(nodes) |-> k],
            LAMBDA k : /\ GetProp(nodes[k], "id") # id
                       /\ HasGeometry(nodes[k])
                       /\ k > at
                       /\ GetNodeBounds(nodes[k]).width # 0
                       /\ GetNodeBounds(nodes[k]).height # 0
                       /\ RectsOverlap(nodeBounds, GetNodeBounds(nodes[k])))

\* Lines 90-137, for the positions hits.
OverlapReports(id, nodeBounds, nodes, hits) ==
  IF nodeBounds.width = 0 \/ nodeBounds.height = 0 THEN <<>>
  ELSE [k \in 1..Len(hits) |->
          OverlapDiag(id, GetProp(nodes[hits[k]], "id"), nodeBounds,
                      GetNodeBounds(nodes[hits[k]]))]

\* noOverlappingNodes.filter and .check; at is the position of node in
\* ctx.document.nodes (indexOf finds the object itself).
NoOverlappingNodesFilter(node) == HasGeometry(node)

NoOverlappingNodesCheck(node, ctx, at) ==
  [threw |-> FALSE,
   diagnostics |->
     OverlapReports(GetProp(node, "id"), GetNodeBounds(node), NodesOf(ctx),
                    Overlapping(GetProp(node, "id"), GetNodeBounds(node),
                                NodesOf(ctx), at))]

\* The nodes-aligned rule of the second source file: it compares positions
\* only and reports the first other node within the threshold on each axis.
PositionedOthers(id, ctx) ==
  SelectSeq(NodesOf(ctx),
            LAMBDA n : GetProp(n, "id") # id /\ GetProp(n, "position") # Undef)

\* The others (by position in the list) the loop over one axis stops at.
NearOnAxis(pos, others, axis, threshold) ==
  {j \in DOMAIN others :
     /\ Abs(pos[axis] - Coord(others[j], "position", axis)) > 0
     /\ Abs(pos[axis] - Coord(others[j], "position", axis)) <= threshold}

PositionalDiag(id, orientation, diff, other, to) ==
  [ruleId |-> "visual/nodes-aligned", severity |-> "warning",
   message |-> <<orientation, diff, GetProp(other, "id")>>,
   targets |-> <<ElementTarget("node", id)>>,
   visual |-> <<[type |-> "guideline", orientation |-> orientation,
                 position |-> IF orientation = "vertical"
                              THEN Coord(other, "position", 1)
                              ELSE Coord(other, "position", 2),
                 style |-> "snap"]>>,
   fix |-> [changes |-> <<[type |-> "move", nodeId |-> id, to |-> to]>>,
            safe |-> TRUE]]

\* One of the two loops: the report for the first other node that is near.
PositionalReport(id, pos, others, axis, near) ==
  IF near = {} THEN <<>>
  ELSE LET other == others[CHOOSE j \in near : \A k \in near : j <= k]
       IN <<PositionalDiag(
              id, IF axis = 1 THEN "vertical" ELSE "horizontal",
              Abs(pos[axis] - Coord(other, "position", axis)), other,
              IF axis = 1
              THEN Arr(<<Num(Coord(other, "position", 1)), Num(pos[2])>>)
              ELSE Arr(<<Num(pos[1]), Num(Coord(other, "position", 2))>>))>>

PositionalFilter(node) == GetProp(node, "position") # Undef

PositionalReports(id, pos, others, threshold) ==
  PositionalReport(id, pos, others, 1, NearOnAxis(pos, others, 1, threshold))
    \o PositionalReport(id, pos, others, 2,
                        NearOnAxis(pos, others, 2, threshold))

PositionalCheck(node, ctx) ==
  [threw |-> FALSE,
   diagnostics |->
     PositionalReports(
       GetProp(node, "id"),
       <<Coord(node, "position", 1), Coord(node, "position", 2)>>,
       PositionedOthers(GetProp(node, "id"), ctx), Threshold(ctx))]

\* parent-contains-children: getNodeBounds answers null for a node without
\* position or size.
NoBounds == [null |-> TRUE, left |-> 0, right |-> 0, top |-> 0, bottom |-> 0]

NodeBoundsOrNull(node) ==
  IF ~Truthy(GetProp(node, "position")) \/ ~Truthy(GetProp(node, "size"))
  THEN NoBounds
  ELSE [null |-> FALSE,
        left |-> Coord(node, "position", 1),
        right |-> Coord(node, "position", 1) + Coord(node, "size", 1),
        top |-> Coord(node, "position", 2),
        bottom |-> Coord(node, "position", 2) + Coord(node, "size", 2)]

BoundsContains(parent, child) ==
  /\ parent.left <= child.left
  /\ parent.right >= child.right
  /\ parent.top <= child.top
  /\ parent.bottom >= child.bottom

Least(S) == CHOOSE m \in S : \A x \in S : m <= x
Greatest(S) == CHOOSE m \in S : \A x \in S : m >= x

UnionBounds(bounds) ==
  [left |-> Least({bounds[k].left : k \in DOMAIN bounds}),
   right |-> Greatest({bounds[k].right : k \in DOMAIN bounds}),
   top |-> Least({bounds[k].top : k \in DOMAIN bounds}),
   bottom |-> Greatest({bounds[k].bottom : k \in DOMAIN bounds})]

DefaultPadding == 10

\* (ctx.options.padding as number) ?? 10
Padding(ctx) ==
  IF \E k \in DOMAIN ctx.options : ctx.options[k][1] = "padding"
  THEN ctx.options[CHOOSE k \in DOMAIN ctx.options :
                     ctx.options[k][1] = "padding"][2]
  ELSE DefaultPadding

\* The parent-child blocks of one relation that name a parent.
PairsOfRelation(relation) ==
  LET data == GetProp(relation, "data")
      exts == IF data.t = "arr" THEN data.e ELSE <<>>
      blocks == SelectSeq(exts, LAMBDA ext : /\ IsParentChildExtension(ext)
                                             /\ Truthy(GetProp(ext, "parent")))
  IN [k \in 1..Len(blocks) |->
        [parent |-> GetProp(blocks[k], "parent"),
         child |-> GetProp(blocks[k], "child")]]

RECURSIVE PairsFrom(_, _)
PairsFrom(relations, i) ==
  IF i > Len(relations) THEN <<>>
  ELSE PairsOfRelation(relations[i]) \o PairsFrom(relations, i + 1)

\* parentChildrenMap: its keys in insertion order, and the list under a key.
ParentIds(pairs) ==
  LET first == SelectSeq([k \in 1..Len(pairs) |-> k],
                         LAMBDA k : \A j \in 1..(k - 1) :
                                      pairs[j].parent # pairs[k].parent)
  IN [k \in 1..Len(first) |-> pairs[first[k]].parent]

ChildIds(pairs, parentId) ==
  LET mine == SelectSeq(pairs, LAMBDA p : p.parent = parentId)
  IN [k \in 1..Len(mine) |-> mine[k].child]

\* Lines 95-106: the children that are nodes with bounds.
ValidChildIds(ctx, childIds) ==
  SelectSeq(childIds,
            LAMBDA c : /\ GetNode(ctx, c) # 0
                       /\ ~NodeBoundsOrNull(NodesOf(ctx)[GetNode(ctx, c)]).null)

ContainDiag(parentId, parentBounds, outsideChildren, newPosition, newSize) ==
  [ruleId |-> "visual/parent-contains-children", severity |-> "warning",
   message |-> <<"Parent", parentId, outsideChildren>>,
   targets |-> <<ElementTarget("node", parentId)>>
                 \o [k \in 1..Len(outsideChildren) |->
                       ElementTarget("node", outsideChildren[k])],
   visual |-> <<[type |-> "highlight",
                 bounds |-> [x |-> parentBounds.left, y |-> parentBounds.top,
                             width |-> parentBounds.right - parentBounds.left,
                             height |-> parentBounds.bottom - parentBounds.top],
                 style |-> "warning"]>>,
   fix |-> [changes |-> <<[type |-> "move", nodeId |-> parentId,
                           to |-> newPosition],
                          [type |-> "resize", nodeId |-> parentId,
                           to |-> newSize]>>,
            safe |-> TRUE]]

\* Lines 108-171, for a parent with bounds and its children with bounds.
ContainReport(parentId, parentBounds, validChildIds, childBounds, required, padding) ==
  IF Len(childBounds) = 0 THEN <<>>
  ELSE IF \A k \in DOMAIN childBounds :
            BoundsContains(parentBounds, childBounds[k])
  THEN <<>>
  ELSE <<ContainDiag(
           parentId, parentBounds,
           LET outside == SelectSeq([k \in 1..Len(validChildIds) |-> k],
                                    LAMBDA k : ~BoundsContains(parentBounds,
                                                               childBounds[k]))
           IN [k \in 1..Len(outside) |-> validChildIds[outside[k]]],
           Arr(<<Num(required.left - padding), Num(required.top - padding)>>),
           Arr(<<Num(required.right - required.left + padding * 2),
                 Num(required.bottom - required.top + padding * 2)>>))>>

ChildBoundsOf(ctx, validChildIds) ==
  [k \in 1..Len(validChildIds) |->
     NodeBoundsOrNull(NodesOf(ctx)[GetNode(ctx, validChildIds[k])])]

\* Lines 81-171: what one entry of the map reports.
ParentReport(ctx, parentId, childIds) ==
  IF GetNode(ctx, parentId) = 0 THEN <<>>
  ELSE IF NodeBoundsOrNull(NodesOf(ctx)[GetNode(ctx, parentId)]).null THEN <<>>
  ELSE IF Len(ValidChildIds(ctx, childIds)) = 0 THEN <<>>
  ELSE ContainReport(
         parentId, NodeBoundsOrNull(NodesOf(ctx)[GetNode(ctx, parentId)]),
         ValidChildIds(ctx, childIds),
         ChildBoundsOf(ctx, ValidChildIds(ctx, childIds)),
         UnionBounds(ChildBoundsOf(ctx, ValidChildIds(ctx, childIds))),
         Padding(ctx))

RECURSIVE ParentReportsFrom(_, _, _, _)
ParentReportsFrom(ctx, pairs, parents, i) ==
  IF i > Len(parents) THEN <<>>
  ELSE ParentReport(ctx, parents[i], ChildIds(pairs, parents[i]))
         \o ParentReportsFrom(ctx, pairs, parents, i + 1)

\* parentContainsChildren.check
ParentContainsChildrenCheck(ctx) ==
  [threw |-> FALSE,
   diagnostics |->
     ParentReportsFrom(
       ctx,
       PairsFrom(IF ctx.document.relations.t = "arr"
                 THEN ctx.document.relations.e ELSE <<>>, 1),
       ParentIds(PairsFrom(IF ctx.document.relations.t = "arr"
                           THEN ctx.document.relations.e ELSE <<>>, 1)),
       1)]

\* A rule of the registry.  A built-in rule runs the operators above, the
\* positional rule those of the second nodes-aligned source file.  A
\* custom rule stands for rule code written elsewhere: its filter raises on
\* the elements of filterThrowsOn and rejects those of filterRejects, its
\* check raises on the elements of checkThrowsOn and otherwise reports one
\* diagnostic on the element, carrying the ruleId and severity the rule
\* itself chose (an ownRuleId of "" is a check function that leaves the
\* field out); one that mutates marks the element it is given.
Rule(id, target, kind, hasFilter) ==
  [id |-> id, target |-> target, kind |-> kind, hasFilter |-> hasFilter,
   filterThrowsOn |-> {}, filterRejects |-> {}, checkThrowsOn |-> {},
   ownRuleId |-> id, ownSeverity |-> "error", mutates |-> FALSE]

NoDanglingRefs == Rule("structural/no-dangling-refs", "relation", "builtin", FALSE)
UniqueIds == Rule("structural/unique-ids", "canvas", "builtin", FALSE)
ValidResourceRefs == Rule("structural/valid-resource-refs", "node", "builtin", TRUE)
NodesAligned == Rule("visual/nodes-aligned", "node", "builtin", TRUE)
NoOverlappingNodes == Rule("visual/no-overlapping-nodes", "node", "builtin", TRUE)

\* Rule objects the sources define and the registration loop leaves out.
ParentContainsChildren ==
  Rule("visual/parent-contains-children", "canvas", "builtin", FALSE)
NodesAlignedByPosition == Rule("visual/nodes-aligned", "node", "positional", TRUE)

\* builtinRules, in the order they are registered.
BuiltinRules ==
  <<NoDanglingRefs, UniqueIds, ValidResourceRefs, NodesAligned,
    NoOverlappingNodes>>

\* rule.filter(element, ctx): "true", "false" or "throw".
RuleFilter(rule, element, ctx) ==
  IF rule.kind = "builtin"
  THEN (IF CASE rule.id = ValidResourceRefs.id -> ValidResourceRefsFilter(element)
             [] rule.id = NodesAligned.id -> NodesAlignedFilter(element)
             [] OTHER -> NoOverlappingNodesFilter(element)
        THEN "true" ELSE "false")
  ELSE IF rule.kind = "positional"
  THEN (IF PositionalFilter(element) THEN "true" ELSE "false")
  ELSE IF GetProp(element, "id") \in rule.filterThrowsOn THEN "throw"
  ELSE IF GetProp(element, "id") \in rule.filterRejects THEN "false"
  ELSE "true"

CustomDiag(rule, id) ==
  [ruleId |-> rule.ownRuleId, severity |-> rule.ownSeverity,
   message |-> <<"custom", id>>, targets |-> <<ElementTarget(rule.target, id)>>]

\* rule.check(element, ctx); at is the position of element in its
\* collection.
RuleCheck(rule, element, ctx, at) ==
  IF rule.kind = "builtin"
  THEN CASE rule.id = NoDanglingRefs.id -> NoDanglingRefsCheck(element, ctx)
         [] rule.id = ValidResourceRefs.id -> ValidResourceRefsCheck(element, ctx)
         [] rule.id = NodesAligned.id -> NodesAlignedCheck(element, ctx)
         [] OTHER -> NoOverlappingNodesCheck(element, ctx, at)
  ELSE IF rule.kind = "positional" THEN PositionalCheck(element, ctx)
  ELSE IF GetProp(element, "id") \in rule.checkThrowsOn
       THEN [threw |-> TRUE, diagnostics |-> <<>>]
       ELSE [threw |-> FALSE,
             diagnostics |-> <<CustomDiag(rule, GetProp(element, "id"))>>]

\* What the call leaves of the element it was handed.
AfterRule(rule, element) ==
  IF rule.mutates /\ element.t = "obj"
  THEN Obj(SetKey(element.f, "touched", Num(1))) ELSE element

\* ruleRegistry.get(id): the position of the rule, 0 when absent.
RegistryIndex(registry, id) ==
  IF \E i \in DOMAIN registry : registry[i].id = id
  THEN CHOOSE i \in DOMAIN registry : registry[i].id = id
  ELSE 0

\* ruleRegistry.set(rule.id, rule): a Map keeps the position of a key that is
\* set again.
RegistrySetKeepingFirst(registry, rule) ==
  IF RegistryIndex(registry, rule.id) = 0 THEN Append(registry, rule)
  ELSE registry

RegistrySet(registry, rule) ==
  IF RegistryIndex(registry, rule.id) = 0 THEN Append(registry, rule)
  ELSE [registry EXCEPT ![RegistryIndex(registry, rule.id)] = rule]

\* A RuleConfig: the string form "off" | "warn" | "error", or the array form
\* [level, options].
Level(level) == [form |-> "string", level |-> level, options |-> <<>>]
LevelWith(level, options) == [form |-> "array", level |-> level, options |-> options]

ParseRuleConfig(config) ==
  IF config.form = "string" /\ config.level = "off"
  THEN [enabled |-> FALSE, severity |-> "error", options |-> <<>>]
  ELSE IF config.form = "string"
  THEN [enabled |-> TRUE,
        severity |-> IF config.level = "warn" THEN "warning" ELSE "error",
        options |-> <<>>]
  ELSE [enabled |-> TRUE,
        severity |-> IF config.level = "warn" THEN "warning" ELSE "error",
        options |-> config.options]

\* { ...config.settings, ...options }: both are sequences of <<key, value>>
\* pairs; a key of options hides the same key of settings.
MergeOptions(settings, options) ==
  SelectSeq(settings,
            LAMBDA p : ~\E j \in DOMAIN options : options[j][1] = p[1])
    \o options

\* The per-element loop of runRule (lines 124-134, 140-153, 159-172) from
\* element i on.  The filter call is outside the try block: an exception of
\* the filter leaves runRule; an exception of check is caught per element.
RECURSIVE RunElements(_, _, _, _, _, _)
RECURSIVE ElementFiltered(_, _, _, _, _, _, _)
RECURSIVE ElementChecked(_, _, _, _, _, _, _)

RunElements(rule, doc, coll, i, options, acc) ==
  IF doc[coll].t # "arr" \/ i > Len(doc[coll].e)
  THEN [threw |-> FALSE, diagnostics |-> acc, doc |-> doc]
  ELSE ElementFiltered(rule, doc, coll, i, options, acc,
                       IF rule.hasFilter
                       THEN RuleFilter(rule, doc[coll].e[i],
                                       CreateContext(doc, options))
                       ELSE "true")

\* Lines 125-129, given what the filter answered for element i.
ElementFiltered(rule, doc, coll, i, options, acc, passes) ==
  IF passes = "throw"
  THEN [threw |-> TRUE, diagnostics |-> <<>>, doc |-> doc]
  ELSE IF passes = "false"
  THEN RunElements(rule, doc, coll, i + 1, options, acc)
  ELSE ElementChecked(rule, doc, coll, i, options, acc,
                      RuleCheck(rule, doc[coll].e[i],
                                CreateContext(doc, options), i))

ElementCheckedPrepending(rule, doc, coll, i, options, acc, results) ==
  RunElements(rule,
              [doc EXCEPT ![coll] =
                 Arr([doc[coll].e EXCEPT
                        ![i] = AfterRule(rule, doc[coll].e[i])])],
              coll, i + 1, options,
              IF results.threw THEN acc ELSE results.diagnostics \o acc)

\* Lines 129-133, given what check did for element i.
ElementChecked(rule, doc, coll, i, options, acc, results) ==
  RunElements(rule,
              [doc EXCEPT ![coll] =
                 Arr([doc[coll].e EXCEPT
                        ![i] = AfterRule(rule, doc[coll].e[i])])],
              coll, i + 1, options,
              IF results.threw THEN acc ELSE acc \o results.diagnostics)

\* runRule.  A whole-document rule is called once (lines 176-185).
RunRule(rule, doc, options) ==
  IF rule.target = "canvas"
  THEN [threw |-> FALSE,
        diagnostics |-> IF rule.kind = "builtin"
                        THEN (IF rule.id = UniqueIds.id
                              THEN UniqueIdsCheck(doc).diagnostics
                              ELSE ParentContainsChildrenCheck(
                                     CreateContext(doc, options)).diagnostics)
                        ELSE IF rule.checkThrowsOn # {} THEN <<>>
                        ELSE <<CustomDiag(rule, Undef)>>,
        doc |-> doc]
  ELSE RunElements(rule, doc, CollectionOf(rule.target), 1, options, <<>>)

WithSeverityKept(diags, severity) == diags

\* diag.severity = severity, for each diagnostic of the rule (lines 96-99).
WithSeverity(diags, severity) ==
  [k \in 1..Len(diags) |-> [diags[k] EXCEPT !.severity = severity]]

\* The loop of check over Object.entries(config.rules) from entry i on
\* (lines 76-103).
RECURSIVE CheckFrom(_, _, _, _, _)
RECURSIVE RuleParsed(_, _, _, _, _, _, _)
RECURSIVE RuleRan(_, _, _, _, _, _)

CheckFrom(registry, doc, config, i, acc) ==
  IF i > Len(config.rules) THEN [diagnostics |-> acc, doc |-> doc]
  ELSE RuleParsed(registry, doc, config, i, acc,
                  ParseRuleConfig(config.rules[i][2]),
                  RegistryIndex(registry, config.rules[i][1]))

RuleParsedStoppingAtUnknown(registry, doc, config, i, acc, parsed, at) ==
  IF ~parsed.enabled
  THEN CheckFrom(registry, doc, config, i + 1, acc)
  ELSE IF at = 0 THEN [diagnostics |-> acc, doc |-> doc]
  ELSE RuleRan(registry, config, i, acc, parsed.severity,
               RunRule(registry[at], doc,
                       MergeOptions(config.settings, parsed.options)))

\* Lines 78-93, given the parsed entry and the position of its rule.
RuleParsed(registry, doc, config, i, acc, parsed, at) ==
  IF ~parsed.enabled \/ at = 0
  THEN CheckFrom(registry, doc, config, i + 1, acc)
  ELSE RuleRan(registry, config, i, acc, parsed.severity,
               RunRule(registry[at], doc,
                       MergeOptions(config.settings, parsed.options)))

\* Lines 93-102, given what runRule did.
RuleRan(registry, config, i, acc, severity, ran) ==
  CheckFrom(registry, ran.doc, config, i + 1,
            IF ran.threw THEN acc
            ELSE acc \o WithSeverity(ran.diagnostics, severity))

\* ------------------------------------------------------------------------
\* createOverlay (overlay.ts)
\* ------------------------------------------------------------------------
\* `graflint-${prefix}-${idCounter}`: the prefixes hold no digit and no
\* hyphen, so the string determines the prefix and the number.
NextIdNotAdvancing(prefix, idCounter) ==
  [t |-> "str", v |-> <<"graflint", prefix, 0>>]

NextId(prefix, idCounter) == [t |-> "str", v |-> <<"graflint", prefix, idCounter>>]

\* SEVERITY_COLORS[style] and styleColors[style], as the pair looked up.
SeverityColors(style) == [stroke |-> Str(<<"stroke", style>>),
                          fill |-> Str(<<"fill", style>>)]

TextResource(id, content) ==
  Obj([id |-> id,
       representations |->
         Arr(<<Obj([mimeType |-> Str("text/plain"), content |-> content])>>)])

HasVisual(diagnostic) == "visual" \in DOMAIN diagnostic

\* annotation.style ?? fallback
StyleOf(annotation, fallback) ==
  IF "style" \in DOMAIN annotation THEN annotation.style ELSE fallback

Generated(nodes, resources, idCounter) ==
  [threw |-> FALSE, nodes |-> nodes, resources |-> resources,
   idCounter |-> idCounter]

HighlightToNodes(annotation, idCounter, diagnostic) ==
  Generated(
    <<Obj([id |-> NextId("highlight", idCounter),
           position |-> Arr(<<Num(annotation.bounds.x),
                              Num(annotation.bounds.y)>>),
           size |-> Arr(<<Num(annotation.bounds.width),
                          Num(annotation.bounds.height)>>),
           resource |-> NextId("msg", idCounter + 1),
           data |-> Arr(<<Obj([type |-> Str("@ocif/node/rect"),
                               strokeColor |->
                                 SeverityColors(annotation.style).stroke,
                               strokeWidth |-> Num(2),
                               fillColor |->
                                 SeverityColors(annotation.style).fill,
                               cornerRadius |-> Num(4)])>>)])>>,
    <<TextResource(NextId("msg", idCounter + 1), Str(diagnostic.message))>>,
    idCounter + 2)

GuidelineLength == 10000

\* annotation.range?.[k] ?? fallback
RangeOf(annotation, k, fallback) ==
  IF "range" \in DOMAIN annotation THEN annotation.range[k] ELSE fallback

GuidelineToNodes(annotation, idCounter) ==
  LET start == RangeOf(annotation, 1, -(GuidelineLength \div 2))
      end == RangeOf(annotation, 2, GuidelineLength \div 2)
      path == IF annotation.orientation = "horizontal"
              THEN <<"M", start, annotation.position,
                     "L", end, annotation.position>>
              ELSE <<"M", annotation.position, start,
                     "L", annotation.position, end>>
  IN Generated(
       <<Obj([id |-> NextId("guide", idCounter),
              data |-> Arr(<<Obj([type |-> Str("@ocif/node/path"),
                                  path |-> Str(path),
                                  strokeColor |->
                                    Str(<<"line", StyleOf(annotation, "align")>>),
                                  strokeWidth |-> Num(1)])>>)])>>,
       <<>>, idCounter + 1)

LabelToNodes(annotation, idCounter) ==
  LET colors == SeverityColors(StyleOf(annotation, "info"))
  IN Generated(
       <<Obj([id |-> NextId("label", idCounter),
              position |-> annotation.position,
              size |-> Arr(<<Num(200), Num(30)>>),
              resource |-> NextId("msg", idCounter + 1),
              data |-> Arr(<<Obj([type |-> Str("@ocif/node/rect"),
                                  fillColor |-> colors.fill,
                                  strokeColor |-> colors.stroke,
                                  strokeWidth |-> Num(1),
                                  cornerRadius |-> Num(4)]),
                             Obj([type |-> Str("@ocif/node/textstyle"),
                                  fontSize |-> Num(12),
                                  color |-> colors.stroke])>>)])>>,
       <<TextResource(NextId("msg", idCounter + 1), Str(annotation.text))>>,
       idCounter + 2)

MarkerSize == 16

MarkerToNodes(annotation, idCounter) ==
  LET colors == SeverityColors(StyleOf(annotation, "error"))
  IN Generated(
       <<Obj([id |-> NextId("marker", idCounter),
              position |->
                Arr(<<Num(annotation.position.e[1].v - MarkerSize \div 2),
                      Num(annotation.position.e[2].v - MarkerSize \div 2)>>),
              size |-> Arr(<<Num(MarkerSize), Num(MarkerSize)>>),
              data |-> Arr(<<Obj([type |-> Str("@ocif/node/oval"),
                                  fillColor |-> colors.fill,
                                  strokeColor |-> colors.stroke,
                                  strokeWidth |-> Num(2)])>>)])>>,
       <<>>, idCounter + 1)

\* The switch has no default: for any other type the function returns
\* undefined, and createOverlay raises TypeError reading result.nodes.
AnnotationToNodes(annotation, idCounter, diagnostic) ==
  CASE annotation.type = "highlight" ->
         HighlightToNodes(annotation, idCounter, diagnostic)
    [] annotation.type = "guideline" -> GuidelineToNodes(annotation, idCounter)
    [] annotation.type = "label" -> LabelToNodes(annotation, idCounter)
    [] annotation.type = "marker" -> MarkerToNodes(annotation, idCounter)
    [] OTHER -> [threw |-> TRUE, nodes |-> <<>>, resources |-> <<>>,
                 idCounter |-> idCounter]

\* Lines 35-36: the arrays and the counter after one annotation.
Pushed(acc, result) ==
  IF result.threw THEN [acc EXCEPT !.threw = TRUE]
  ELSE [threw |-> FALSE, nodes |-> acc.nodes \o result.nodes,
        resources |-> acc.resources \o result.resources,
        idCounter |-> result.idCounter]

\* Lines 41-54: the message resource of a diagnostic without annotations.
MessageResourceNotPushed(acc, diagnostic) ==
  [acc EXCEPT !.idCounter = @ + 1]

MessageResource(acc, diagnostic) ==
  [acc EXCEPT
     !.resources =
        Append(@, TextResource(NextId("msg", acc.idCounter),
                               Str(<<diagnostic.ruleId, diagnostic.message>>))),
     !.idCounter = @ + 1]

\* The two loops of createOverlay from annotation k of diagnostic i on.
RECURSIVE OverlayFrom(_, _, _, _)
OverlayFrom(diags, i, k, acc) ==
  IF acc.threw \/ i > Len(diags) THEN acc
  ELSE IF HasVisual(diags[i]) /\ k <= Len(diags[i].visual)
  THEN OverlayFrom(diags, i, k + 1,
                   Pushed(acc, AnnotationToNodes(diags[i].visual[k],
                                                 acc.idCounter, diags[i])))
  ELSE IF ~HasVisual(diags[i]) \/ Len(diags[i].visual) = 0
  THEN OverlayFrom(diags, i + 1, 1, MessageResource(acc, diags[i]))
  ELSE OverlayFrom(diags, i + 1, 1, acc)

\* What createOverlay returns, given the arrays it built (lines 57-61).
OverlayDocumentWithoutResources(built) ==
  [threw |-> built.threw,
   doc |-> Doc(Arr(built.nodes), Undef, Arr(<<>>)),
   idCounter |-> built.idCounter]

OverlayDocument(built) ==
  [threw |-> built.threw,
   doc |-> Doc(Arr(built.nodes), Undef, Arr(built.resources)),
   idCounter |-> built.idCounter]

VARIABLES
  overlay         \* what the latest check or createOverlay call made

\* Line 26: idCounter is a variable of the call, set to 0 whatever number an
\* earlier call ended at.
CarriedCounter(carried) == carried

FreshCounter(carried) == 0

CreateOverlay(diags) ==
  OverlayDocument(
    OverlayFrom(diags, 1, 1,
                Generated(<<>>, <<>>, FreshCounter(overlay.idCounter))))

NoOverlay == [threw |-> FALSE, doc |-> DocB, idCounter |-> 0]

\* check(canvas, config): the diagnostics returned and what the call left of
\* the caller's document.
Check(registry, doc, config) == CheckFrom(registry, doc, config, 1, <<>>)

VARIABLES
  ruleRegistry,   \* the registry, in insertion order
  config,         \* the configuration of the latest check call
  rechecked,      \* the diagnostics of a check of the document fix returned
  answer          \* the latest queries of a context and what they returned

checkVars == <<ruleRegistry, config, checked, rechecked, overlay, answer>>

NoAnswer == [query |-> "none"]

NoConfig == [rules |-> <<>>, settings |-> <<>>]

\* ------------------------------------------------------------------------
\* Actions
\* ------------------------------------------------------------------------
vars == <<fixVars, checkVars>>

Init ==
  /\ pc = Idle.pc
  /\ heap = Idle.heap
  /\ canvas = Idle.canvas
  /\ diagnostics = Idle.diagnostics
  /\ currentCanvas = Idle.currentCanvas
  /\ applied = Idle.applied
  /\ failed = Idle.failed
  /\ remaining = Idle.remaining
  /\ fixable = Idle.fixable
  /\ stillFixable = Idle.stillFixable
  /\ madeProgress = Idle.madeProgress
  /\ maxIterations = Idle.maxIterations
  /\ idx = Idle.idx
  /\ rounds = Idle.rounds
  /\ last = Idle.last
  /\ thrown = Idle.thrown
  /\ input = Idle.input
  /\ ruleRegistry = BuiltinRules
  /\ config = NoConfig
  /\ checked = <<>>
  /\ rechecked = <<>>
  /\ overlay = NoOverlay
  /\ answer = NoAnswer

FixCall ==
  /\ pc = "idle"
  /\ \E doc \in Documents, diags \in DiagLists : Install(FixEnter(doc, diags))
  /\ UNCHANGED checkVars

FixRoundBegin ==
  /\ pc = "while"
  /\ LoopGuard(madeProgress, maxIterations)
  /\ Install(RoundBegin(Frame))
  /\ UNCHANGED checkVars

FixAttempt ==
  /\ pc = "for"
  /\ idx <= Len(fixable)
  /\ Install(Attempt(Frame))
  /\ UNCHANGED checkVars

FixRoundEnd ==
  /\ pc = "for"
  /\ idx > Len(fixable)
  /\ Install(RoundEnd(Frame))
  /\ UNCHANGED checkVars

FixReturn ==
  /\ pc = "while"
  /\ ~LoopGuard(madeProgress, maxIterations)
  /\ Install(Finish(Frame))
  /\ UNCHANGED checkVars

\* Documents and configurations check is called with.
ResourceNode(id, resource) == Obj([id |-> Str(id), resource |-> Str(resource)])

Resource(id) == Obj([id |-> Str(id)])

\* Three nodes, two of them naming a resource (one missing), an edge whose
\* end dangles and a group with a missing member.
DocC ==
  Doc(Arr(<<ResourceNode(1, 4), Node(2, 0, 0), ResourceNode(3, 7)>>),
      Arr(<<EdgeRelation(5, 1, 9),
            Obj([id |-> Str(6),
                 data |-> Arr(<<Obj([type |-> Str(GroupType),
                                     members |-> Arr(<<Str(1), Str(8)>>)])>>)])>>),
      Arr(<<Resource(4)>>))

\* Four nodes with a size: 1 and 2 overlap and their left edges are 3
\* apart, 3 is 8 to the right of 2 and has no width, 4 touches the right
\* edge of 2; a resource has the id of node 1.
SizedNode(id, x, y, w, h) ==
  Obj([id |-> Str(id), position |-> Arr(<<Num(x), Num(y)>>),
       size |-> Arr(<<Num(w), Num(h)>>)])

DocD ==
  Doc(Arr(<<SizedNode(1, 0, 0, 10, 10), SizedNode(2, 3, 5, 10, 10),
            SizedNode(3, 21, 5, 0, 6), SizedNode(4, 13, 5, 4, 4)>>),
      Arr(<<>>), Arr(<<Resource(1)>>))

CheckDocuments == {DocA, DocC, DocD}

\* Custom rules a caller may register.
CustomRules ==
  { [Rule("custom/a", "node", "custom", FALSE) EXCEPT
       !.checkThrowsOn = {Str(2)}, !.ownSeverity = "warning",
       !.ownRuleId = "custom/c"],
    [Rule("custom/b", "node", "custom", TRUE) EXCEPT
       !.filterThrowsOn = {Str(2)}, !.ownRuleId = "other"],
    [Rule("custom/b", "node", "custom", TRUE) EXCEPT
       !.filterRejects = {Str(1)}, !.mutates = TRUE],
    [Rule("custom/c", "canvas", "custom", FALSE) EXCEPT !.ownRuleId = ""] }

RuleIds ==
  {"structural/no-dangling-refs", "structural/unique-ids",
   "structural/valid-resource-refs", "visual/nodes-aligned",
   "visual/no-overlapping-nodes", "custom/a", "custom/b", "custom/c",
   "unknown"}

RuleConfigs ==
  {Level("off"), Level("warn"), Level("error"),
   LevelWith("warn", <<<<"threshold", 9>>>>),
   LevelWith("error", <<<<"threshold", 2>>>>)}

MaxRules == 2

\* Configurations: up to MaxRules entries with distinct rule ids.
ConfigEntries == {<<id, c>> : id \in RuleIds, c \in RuleConfigs}

Configs ==
  {[rules |-> entries, settings |-> <<>>] :
     entries \in {q \in SeqsUpTo(ConfigEntries, MaxRules) :
                    \A i, j \in DOMAIN q : i # j => q[i][1] # q[j][1]}}

\* registerRule(rule)
RegisterRule ==
  /\ pc = "idle"
  /\ \E rule \in CustomRules : ruleRegistry' = RegistrySet(ruleRegistry, rule)
  /\ UNCHANGED <<fixVars, config, checked, rechecked, overlay, answer>>

\* check(canvas, config): the caller's document is handed to the rules as
\* it is (no copy is made).  An exception of createOverlay (line 106) leaves
\* check.
CheckReturn(doc, c, result, made) ==
  /\ Install([Idle EXCEPT !.pc = IF made.threw THEN "raised" ELSE "checked",
                          !.heap = <<result.doc>>, !.canvas = 1,
                          !.input = doc])
  /\ config' = c
  /\ checked' = IF made.threw THEN <<>> ELSE result.diagnostics
  /\ rechecked' = <<>>
  /\ overlay' = made

\* Lines 73-108, given what the loop over the configuration collected.
CheckDone(doc, c, result) ==
  CheckReturn(doc, c, result, CreateOverlay(result.diagnostics))

CheckCall ==
  /\ pc = "idle"
  /\ \E doc \in CheckDocuments, c \in Configs :
       CheckDone(doc, c, Check(ruleRegistry, doc, c))
  /\ UNCHANGED <<ruleRegistry, answer>>

\* The caller is done with the result.
Release ==
  /\ pc \in {"return", "checked", "rechecked", "raised", "made", "remade",
            "registered", "queried",
             "changed"}
  /\ Install(Idle)
  /\ config' = NoConfig
  /\ checked' = <<>>
  /\ rechecked' = <<>>
  /\ overlay' = NoOverlay
  /\ answer' = NoAnswer
  /\ UNCHANGED ruleRegistry

Next ==
  \/ FixCall
  \/ FixRoundBegin
  \/ FixAttempt
  \/ FixRoundEnd
  \/ FixReturn
  \/ CheckCall
  \/ Release

Spec == Init /\ [][Next]_vars

\* The runner with rules registered by the caller.
NextCheck ==
  \/ RegisterRule
  \/ CheckCall
  \/ Release

SpecCheck == Init /\ [][NextCheck]_vars

\* ------------------------------------------------------------------------
\* Calls that reach the iteration ceiling
\* ------------------------------------------------------------------------
\* Reverse chains around the ceiling, and short lists of the diagnostics that
\* wait on each other.
CeilingCalls ==
  {[doc |-> DocB, diags |-> ReverseChain(n)] :
     n \in {MaxIterations - 1, MaxIterations, MaxIterations + 1}}
  \cup {[doc |-> doc, diags |-> diags] :
          doc \in Documents, diags \in SeqsUpTo({3, 4, 5}, 2)}

FixCallCeiling ==
  /\ pc = "idle"
  /\ \E call \in CeilingCalls : Install(FixEnter(call.doc, call.diags))
  /\ UNCHANGED checkVars

NextCeiling ==
  \/ FixCallCeiling
  \/ FixRoundBegin
  \/ FixAttempt
  \/ FixRoundEnd
  \/ FixReturn
  \/ Release

SpecCeiling == Init /\ [][NextCeiling]_vars

\* ------------------------------------------------------------------------
\* check, then fix on what it returned, then check again
\* ------------------------------------------------------------------------
ParentChildRelation(id, parent, child) ==
  Obj([id |-> Str(id),
       data |-> Arr(<<Obj([type |-> Str(ParentChildType),
                           parent |-> Str(parent), child |-> Str(child)])>>)])

\* An edge whose start names no element, and an edge that starts at it.
DocE ==
  Doc(Arr(<<Node(1, 0, 0)>>),
      Arr(<<EdgeRelation(3, 9, 1), EdgeRelation(4, 3, 1)>>), Undef)

\* The two nodes of DocA with a size.
DocF ==
  Doc(Arr(<<SizedNode(1, 100, 100, 10, 10), SizedNode(2, 103, 200, 10, 10)>>),
      Undef, Undef)

\* Node 1 is the parent of node 2, which is the parent of node 3; each child
\* lies outside its parent.  Node 4 is inside its parent 2.
DocG ==
  Doc(Arr(<<SizedNode(1, 0, 0, 10, 10), SizedNode(2, 20, 20, 10, 10),
            SizedNode(3, 50, 50, 10, 10), SizedNode(4, 22, 22, 2, 2)>>),
      Arr(<<ParentChildRelation(5, 1, 2), ParentChildRelation(6, 2, 3),
            ParentChildRelation(7, 2, 4)>>),
      Undef)

RepairDocuments == {DocA, DocE, DocF, DocG}

RepairRuleIds ==
  {"structural/no-dangling-refs", "visual/nodes-aligned",
   "visual/parent-contains-children"}

RepairLevels ==
  {Level("warn"), Level("error"), LevelWith("warn", <<<<"threshold", 5>>>>)}

RepairConfigs ==
  {[rules |-> entries, settings |-> <<>>] :
     entries \in {q \in SeqsUpTo({<<id, c>> : id \in RepairRuleIds,
                                               c \in RepairLevels}, MaxRules) :
                    \A i, j \in DOMAIN q : i # j => q[i][1] # q[j][1]}}

\* The rule objects a caller can register besides the custom ones.
ExportedRules == {ParentContainsChildren, NodesAlignedByPosition, NodesAligned}

RegisterExported ==
  /\ pc = "idle"
  /\ \E rule \in ExportedRules : ruleRegistry' = RegistrySet(ruleRegistry, rule)
  /\ UNCHANGED <<fixVars, config, checked, rechecked, overlay, answer>>

CheckScenario ==
  /\ pc = "idle"
  /\ \E doc \in RepairDocuments, c \in RepairConfigs :
       CheckDone(doc, c, Check(ruleRegistry, doc, c))
  /\ UNCHANGED <<ruleRegistry, answer>>

\* fix(canvas, result.diagnostics)
FixChecked ==
  /\ pc = "checked"
  /\ Install(FixEnter(heap[canvas], [k \in 1..Len(checked) |-> CheckedRef(k)]))
  /\ UNCHANGED checkVars

\* check(fixResult.canvas, config)
RecheckDone(result, made) ==
  /\ Install([Frame EXCEPT !.pc = IF made.threw THEN "raised" ELSE "rechecked"])
  /\ rechecked' = IF made.threw THEN <<>> ELSE result.diagnostics
  /\ overlay' = made
  /\ UNCHANGED <<ruleRegistry, config, checked, answer>>

Rechecked(result) == RecheckDone(result, CreateOverlay(result.diagnostics))

Recheck ==
  /\ pc = "return"
  /\ Rechecked(Check(ruleRegistry, heap[currentCanvas], config))

NextRepair ==
  \/ RegisterExported
  \/ CheckScenario
  \/ FixChecked
  \/ FixRoundBegin
  \/ FixAttempt
  \/ FixRoundEnd
  \/ FixReturn
  \/ Recheck
  \/ Release

SpecRepair == Init /\ [][NextRepair]_vars

\* ------------------------------------------------------------------------
\* Properties
\* ------------------------------------------------------------------------
Count(list, x) == Cardinality({i \in DOMAIN list : list[i] = x})

Range(list) == {list[i] : i \in DOMAIN list}

Returned == pc = "return"

\* The working document, and the document fix returns.
WorkingDoc == heap[currentCanvas]

\* C1: applied, failed and remaining together cover the input list exactly:
\* every list position of the input occurs in exactly one of them, once, and
\* they hold nothing else.
C1_PartitionCoversInput ==
  Returned =>
    \A r \in Range(diagnostics) \cup Range(applied) \cup Range(failed)
               \cup Range(remaining) :
      Count(diagnostics, r)
        = Count(applied, r) + Count(failed, r) + Count(remaining, r)

\* A measure of the work a running call has left: whole rounds the ceiling
\* still allows, then positions left in the current round.
RoundSpan == Len(diagnostics) + 2

Rank ==
  CASE pc = "while" -> (maxIterations + 1) * RoundSpan
    [] pc = "for" -> (maxIterations + 1) * RoundSpan + RoundSpan - idx
    [] OTHER -> 0

RankLowers == pc \in {"while", "for"} => (Rank' < Rank /\ Rank' >= 0)

\* C2: fix terminates after at most 100 rounds (every step of a running call
\* strictly lowers a measure that never goes below zero, and at most 100
\* rounds begin), and every diagnostic with a Fix that was never applied (its
\* Fix waiting on a precondition that never came) is in failed on return.
C2_TerminatesWithinCeiling ==
  /\ [](rounds <= MaxIterations)
  /\ [][RankLowers]_vars
  /\ [](Returned =>
          \A i \in DOMAIN diagnostics :
            (HasFix(Deref(diagnostics[i])) /\ ~Includes(applied, diagnostics[i]))
              => Includes(failed, diagnostics[i]))

\* The ceiling ended the loop and left a pending diagnostic to failed.
C2_Witness == Returned /\ rounds = MaxIterations /\ failed # <<>>

\* Attempting d against the working document resolves.
ResolvesNow(d) == ApplyFix(heap, currentCanvas, Deref(d)).success

NoFailedResolves ==
  \A i \in DOMAIN failed : failed[i] \notin thrown => ~ResolvesNow(failed[i])

\* C3 as stated: when fix returns, no diagnostic in failed that did not throw
\* would resolve against the returned document.
C3_Original == Returned => NoFailedResolves

\* C3 amended: the same, when the loop ended because a round made no
\* progress (not because the ceiling of 100 rounds stopped it).
C3_LocallyConverged == (Returned /\ ~madeProgress) => NoFailedResolves

\* A diagnostic was retried in a second round and still ended in failed.
C3_Witness ==
  /\ Returned /\ ~madeProgress /\ rounds >= 2
  /\ \E i \in DOMAIN failed : failed[i] \notin thrown

\* C4: neither check (with the built-in rules registered) nor fix changes
\* the document the caller passed: during and after every call it has the
\* value it had when it was passed.
C4_CallerDocumentUntouched ==
  pc \in {"while", "for", "return", "checked"} => heap[canvas] = input

\* fix returned a document that differs from the caller's.
C4_Witness == Returned /\ applied # <<>> /\ WorkingDoc # input

\* One iteration of the for loop of fix.
AttemptStep == pc = "for" /\ pc' = "for" /\ idx' = idx + 1

\* The statements after the for loop: the next round's list is installed.
RoundEndStep == pc = "for" /\ pc' = "while"

\* An attempt that could not resolve leaves the working document, applied
\* and failed as they were and queues the diagnostic for the next round.
AbortIsAtomic ==
  (AttemptStep /\ last'.outcome = "unresolved") =>
    /\ WorkingDoc' = WorkingDoc
    /\ applied' = applied
    /\ failed' = failed
    /\ stillFixable' = Append(stillFixable, fixable[idx])

C6_ThrowIsContained ==
  [][/\ (AttemptStep /\ last'.outcome = "threw") =>
          /\ failed' = Append(failed, fixable[idx])
          /\ WorkingDoc' = WorkingDoc
          /\ applied' = applied
          /\ stillFixable' = stillFixable
          /\ fixable' = fixable
     /\ (pc = "for" /\ idx <= Len(fixable)) => AttemptStep
     /\ (AttemptStep /\ fixable[idx] \in thrown) => last'.outcome = "skipped"
     /\ (RoundEndStep \/ pc' = "return") => thrown \subseteq Range(failed')
     /\ (RoundEndStep) => thrown \cap Range(fixable') = {}]_vars

\* A Fix raised and a later diagnostic of the same round was applied.
C6_Witness ==
  pc = "for" /\ rounds = 1 /\ thrown # {} /\ last.outcome = "applied"

\* The targets C7 is evaluated on.
ProbeTargets ==
  { Target("node", 1, <<"position", "0">>),
    Target("node", 9, <<>>),
    Target("node", 9, <<"position">>),
    Target("relation", 3, <<"data", "0", "end">>),
    Target("relation", 3, <<"data", "5">>),
    Target("relation", 3, <<"data", "5", "end">>),
    Target("relation", 3, <<"extra", "end">>),
    Target("resource", 1, <<>>) }

\* Some segment before the last names a key the value does not have, or some
\* segment indexes an array out of range.
RECURSIVE PathBreaks(_, _, _)
PathBreaks(cur, path, i) ==
  IF i > Len(path) THEN FALSE
  ELSE IF cur.t = "arr" /\ IsIndex(path[i]) /\ ParseInt(path[i]) >= Len(cur.e)
  THEN TRUE
  ELSE IF i = Len(path) THEN FALSE
  ELSE IF GetProp(cur, path[i]) = Undef THEN TRUE
  ELSE PathBreaks(GetProp(cur, path[i]), path, i + 1)

\* The target does not resolve against the document.
DoesNotResolve(doc, target) ==
  \/ TargetIndex(doc, target) = 0
  \/ PathBreaks(doc[CollectionOf(target.type)].e[TargetIndex(doc, target)],
                target.path, 1)

CannotResolve(result) ==
  ~result.threw /\ ~result.success /\ result.heap[result.canvas] = WorkingDoc

\* C7: a set or delete Change whose target does not resolve against the
\* working document does not raise and is not applied: the outcome is the
\* structured failure and the document is unchanged.
C7_UnresolvedTargetFails ==
  pc \in {"while", "for", "return"} =>
    \A target \in ProbeTargets :
      DoesNotResolve(WorkingDoc, target) =>
        /\ CannotResolve(ApplySetChange(heap, currentCanvas, target, Num(0)))
        /\ CannotResolve(ApplyDeleteChange(heap, currentCanvas, target))

\* The list without the diagnostics that have no Fix.
WithoutFixless(list) == SelectSeq(list, LAMBDA d : "fix" \in DOMAIN Deref(d))

\* C8: every diagnostic without a Fix is in remaining, and the document,
\* applied and failed are those fix returns for the list without them.
C8_FixlessHaveNoEffect ==
  Returned =>
    /\ \A i \in DOMAIN diagnostics :
         "fix" \notin DOMAIN Deref(diagnostics[i])
           => Count(remaining, diagnostics[i]) = Count(diagnostics, diagnostics[i])
    /\ LET other == Fix(input, WithoutFixless(diagnostics))
       IN /\ other.canvas = WorkingDoc
          /\ other.applied = applied
          /\ other.failed = failed

\* A list with a Fix-less diagnostic, a diagnostic that was applied and one
\* that failed.
C8_Witness ==
  Returned /\ remaining # <<>> /\ applied # <<>> /\ failed # <<>>

\* sub is list with some positions left out.
RECURSIVE IsSubsequence(_, _)
IsSubsequence(sub, list) ==
  IF sub = <<>> THEN TRUE
  ELSE IF list = <<>> THEN FALSE
  ELSE IF Head(sub) = Head(list) THEN IsSubsequence(Tail(sub), Tail(list))
  ELSE IsSubsequence(sub, Tail(list))

\* The Fixes of list applied one after another from list[i] on.
RECURSIVE ReplayFrom(_, _, _, _)
ReplayFrom(h, cur, list, i) ==
  IF i > Len(list) THEN h[cur]
  ELSE LET r == ApplyFix(h, cur, Deref(list[i]))
       IN IF r.success THEN ReplayFrom(r.heap, r.canvas, list, i + 1)
          ELSE Undef

Replay(doc, list) == ReplayFrom(<<doc, doc>>, 2, list, 1)

Contribution(rule, doc, options, i) ==
  LET element == doc[CollectionOf(rule.target)].e[i]
      ctx == CreateContext(doc, options)
      passes == IF rule.hasFilter THEN RuleFilter(rule, element, ctx) ELSE "true"
  IN IF passes # "true" THEN <<>>
     ELSE IF RuleCheck(rule, element, ctx, i).threw THEN <<>>
     ELSE RuleCheck(rule, element, ctx, i).diagnostics

RECURSIVE ContributionsFrom(_, _, _, _)
ContributionsFrom(rule, doc, options, i) ==
  IF rule.target = "canvas" THEN RunRule(rule, doc, options).diagnostics
  ELSE IF doc[CollectionOf(rule.target)].t # "arr" THEN <<>>
  ELSE IF i > Len(doc[CollectionOf(rule.target)].e) THEN <<>>
  ELSE Contribution(rule, doc, options, i)
         \o ContributionsFrom(rule, doc, options, i + 1)

RECURSIVE ContainedFrom(_, _, _, _)
ContainedFrom(registry, doc, c, i) ==
  IF i > Len(c.rules) THEN <<>>
  ELSE LET parsed == ParseRuleConfig(c.rules[i][2])
           at == RegistryIndex(registry, c.rules[i][1])
       IN (IF parsed.enabled /\ at # 0
           THEN WithSeverity(
                  ContributionsFrom(registry[at], doc,
                                    MergeOptions(c.settings, parsed.options), 1),
                  parsed.severity)
           ELSE <<>>)
          \o ContainedFrom(registry, doc, c, i + 1)

\* C10: when a filter or check call raises on an element, check returns and
\* only that element contributes nothing: the diagnostics of the same rule
\* for the other elements and those of the other rules are returned.
C10_FailureConfinedToElement ==
  pc = "checked" => checked = ContainedFrom(ruleRegistry, input, config, 1)

\* ------------------------------------------------------------------------
\* Properties of the diagnostics check returns
\* ------------------------------------------------------------------------
Checked == pc = "checked"

\* The level a configuration entry names, in either form.
LevelOf(entry) == entry[2].level

\* C11: check returns no diagnostic whose ruleId is a rule id that the
\* configuration turns off, whichever rules are registered.
C11_NoneFromDisabled ==
  Checked =>
    \A k \in DOMAIN checked : \A i \in DOMAIN config.rules :
      LevelOf(config.rules[i]) = "off" => checked[k].ruleId # config.rules[i][1]

\* The filter of the rule raises on some element of the collection it runs
\* over.
FilterRaises(rule, doc, options) ==
  /\ rule.target # "canvas"
  /\ rule.hasFilter
  /\ doc[CollectionOf(rule.target)].t = "arr"
  /\ \E j \in DOMAIN doc[CollectionOf(rule.target)].e :
       RuleFilter(rule, doc[CollectionOf(rule.target)].e[j],
                  CreateContext(doc, options)) = "throw"

\* The diagnostics as the rule's check returned them, each with the
\* configuration entry (key, position at) and the position of the element it
\* was returned for (0 for a whole-document rule).
Tag(diags, key, at, element) ==
  [k \in 1..Len(diags) |->
     [key |-> key, at |-> at, element |-> element, diag |-> diags[k]]]

RECURSIVE TaggedElementsFrom(_, _, _, _, _, _)
TaggedElementsFrom(rule, doc, options, key, at, j) ==
  IF doc[CollectionOf(rule.target)].t # "arr" THEN <<>>
  ELSE IF j > Len(doc[CollectionOf(rule.target)].e) THEN <<>>
  ELSE Tag(Contribution(rule, doc, options, j), key, at, j)
         \o TaggedElementsFrom(rule, doc, options, key, at, j + 1)

TaggedOfRule(rule, doc, options, key, at) ==
  IF rule.target = "canvas"
  THEN Tag(RunRule(rule, doc, options).diagnostics, key, at, 0)
  ELSE IF FilterRaises(rule, doc, options) THEN <<>>
  ELSE TaggedElementsFrom(rule, doc, options, key, at, 1)

RECURSIVE TaggedFrom(_, _, _, _)
TaggedFrom(registry, doc, c, i) ==
  IF i > Len(c.rules) THEN <<>>
  ELSE (IF LevelOf(c.rules[i]) # "off"
           /\ RegistryIndex(registry, c.rules[i][1]) # 0
        THEN TaggedOfRule(registry[RegistryIndex(registry, c.rules[i][1])],
                          doc,
                          MergeOptions(c.settings, c.rules[i][2].options),
                          c.rules[i][1], i)
        ELSE <<>>)
       \o TaggedFrom(registry, doc, c, i + 1)

\* Where each diagnostic of the latest check call came from.
Origins == TaggedFrom(ruleRegistry, input, config, 1)

\* checked[k] is the diagnostic of Origins[k], up to the fields the runner
\* writes.
SameDiagnostics(origins) ==
  /\ Len(checked) = Len(origins)
  /\ \A k \in DOMAIN checked :
       [checked[k] EXCEPT !.severity = origins[k].diag.severity,
                          !.ruleId = origins[k].diag.ruleId]
         = origins[k].diag

RuleIdIsKey(origins) ==
  /\ SameDiagnostics(origins)
  /\ \A k \in DOMAIN checked : checked[k].ruleId = origins[k].key

\* C12: every diagnostic check returns has the configuration key of the rule
\* that produced it as its ruleId, whatever the rule's check wrote there.
C12_RuleIdIsConfigKey == Checked => RuleIdIsKey(Origins)

\* The severity a level stands for.
SeverityOf(level) == IF level = "warn" THEN "warning" ELSE "error"

SeverityIsConfigured(origins) ==
  /\ SameDiagnostics(origins)
  /\ \A k \in DOMAIN checked :
       checked[k].severity = SeverityOf(LevelOf(config.rules[origins[k].at]))

\* C13: every diagnostic check returns has the severity its rule is
\* configured with (warn: warning, error: error, in the string and in the
\* [level, options] form), not the severity the rule wrote.
C13_SeverityIsConfigured == Checked => SeverityIsConfigured(Origins)

\* A rule that writes warning was configured error in the array form, and a
\* rule that writes error was configured warn.
C13_Witness ==
  /\ Checked
  /\ \E k \in DOMAIN checked :
       /\ config.rules[Origins[k].at][2].form = "array"
       /\ Origins[k].diag.severity = "warning"
       /\ checked[k].severity = "error"
  /\ \E k \in DOMAIN checked :
       /\ Origins[k].diag.severity = "error"
       /\ checked[k].severity = "warning"

\* The configuration without its entry i.
WithoutEntry(c, i) ==
  [c EXCEPT !.rules = SubSeq(c.rules, 1, i - 1)
                        \o SubSeq(c.rules, i + 1, Len(c.rules))]

UnknownEnabled(i) ==
  /\ LevelOf(config.rules[i]) # "off"
  /\ RegistryIndex(ruleRegistry, config.rules[i][1]) = 0

\* C14: an enabled entry whose rule id is not registered is skipped: check
\* returns, and its diagnostics are those of the configuration without the
\* entry (the rules configured after it are run).
C14_UnknownRuleSkipped ==
  Checked =>
    \A i \in DOMAIN config.rules :
      UnknownEnabled(i) =>
        checked = Check(ruleRegistry, input, WithoutEntry(config, i)).diagnostics

\* An unknown rule was configured before a rule that reported.
C14_Witness ==
  Checked /\ Len(config.rules) = 2 /\ UnknownEnabled(1) /\ checked # <<>>

\* Origins are in configuration order, then in element order.
InRunOrder(origins) ==
  \A k, l \in DOMAIN origins :
    k < l => \/ origins[k].at < origins[l].at
             \/ /\ origins[k].at = origins[l].at
                /\ origins[k].element <= origins[l].element

\* C15: the diagnostics check returns are ordered by the position of their
\* rule in the configuration, then by the position of the checked element in
\* its collection.
C15_RuleThenElementOrder ==
  Checked => (SameDiagnostics(Origins) /\ InRunOrder(Origins))

\* Two rules reported, the first of them on two elements.
C15_Witness ==
  /\ Checked
  /\ \E k \in DOMAIN checked :
       /\ k + 2 \in DOMAIN checked
       /\ Origins[k].at = 1 /\ Origins[k + 1].at = 1 /\ Origins[k + 2].at = 2
       /\ Origins[k].element < Origins[k + 1].element

\* ------------------------------------------------------------------------
\* Properties of check, fix and check again
\* ------------------------------------------------------------------------
\* Two reports of the same finding: same rule, same targets, same message.
SameReport(a, b) ==
  a.ruleId = b.ruleId /\ a.targets = b.targets /\ a.message = b.message

\* C16: for the built-in fixable rules, a diagnostic of check(D, C) that
\* fix(D, check(D, C).diagnostics) applied is not reported again by check on
\* the document fix returned, with the same C.
C16_AppliedNotReportedAgain ==
  pc = "rechecked" =>
    \A i \in DOMAIN applied : \A k \in DOMAIN rechecked :
      ~SameReport(Deref(applied[i]), rechecked[k])

\* The pipeline has run check, or is past it.
AfterCheck == pc \in {"checked", "while", "for", "return", "rechecked"}

AfterFix == pc \in {"return", "rechecked"}

\* Scenario B: the two nodes at (100,100) and (103,200), with or without a
\* size, and nodes-aligned as the only rule, enabled as warn with the
\* threshold 5 (given, or by default).
ScenarioB ==
  /\ input \in {DocA, DocF}
  /\ Len(config.rules) = 1
  /\ config.rules[1][1] = "visual/nodes-aligned"
  /\ LevelOf(config.rules[1]) = "warn"

XOf(doc, id) == Coord(doc.nodes.e[FindIndex(doc.nodes, Str(id))], "position", 1)

\* C17: in scenario B check returns one diagnostic, a warning on one of the
\* two nodes with a Fix that is one move, and after fix on check's
\* diagnostics the two nodes have the same x-coordinate.
C17_ScenarioB ==
  ScenarioB =>
    /\ AfterCheck =>
         /\ Len(checked) = 1
         /\ checked[1].severity = "warning"
         /\ checked[1].targets \in {<<ElementTarget("node", Str(1))>>,
                                    <<ElementTarget("node", Str(2))>>}
         /\ HasFix(checked[1])
         /\ Len(checked[1].fix.changes) = 1
         /\ checked[1].fix.changes[1].type = "move"
    /\ AfterFix => XOf(WorkingDoc, 1) = XOf(WorkingDoc, 2)

\* Scenario A for relation r of the document: its data is one edge block
\* whose start names neither a node nor a relation and whose end exists, and
\* no-dangling-refs is enabled.
ScenarioA(r) ==
  /\ input.relations.t = "arr"
  /\ r \in DOMAIN input.relations.e
  /\ GetProp(input.relations.e[r], "data").t = "arr"
  /\ Len(GetProp(input.relations.e[r], "data").e) = 1
  /\ IsEdgeExtension(GetProp(input.relations.e[r], "data").e[1])
  /\ Dangling(CreateContext(input, <<>>),
              GetProp(GetProp(input.relations.e[r], "data").e[1], "start"))
  /\ ~Dangling(CreateContext(input, <<>>),
               GetProp(GetProp(input.relations.e[r], "data").e[1], "end"))
  /\ \E i \in DOMAIN config.rules :
       config.rules[i][1] = "structural/no-dangling-refs"

RelationTarget(r) == ElementTarget("relation", GetProp(input.relations.e[r], "id"))

\* The diagnostics of a list that target the relation.
Targeting(list, r) ==
  {k \in DOMAIN list : \E t \in DOMAIN list[k].targets :
                         list[k].targets[t] = RelationTarget(r)}

DanglingLevel ==
  LevelOf(config.rules[CHOOSE i \in DOMAIN config.rules :
                         config.rules[i][1] = "structural/no-dangling-refs"])

\* C18: in scenario A check returns exactly one diagnostic that targets the
\* relation, a no-dangling-refs diagnostic of the configured severity (error
\* when enabled as error) whose Fix deletes the relation; fix on check's
\* diagnostics applies it and returns a document without the relation; check
\* on that document reports no dangling start for the relation.
C18_ScenarioA ==
  \A r \in 1..2 :
    (AfterCheck /\ ScenarioA(r)) =>
      /\ Cardinality(Targeting(checked, r)) = 1
      /\ \A k \in Targeting(checked, r) :
           /\ checked[k].ruleId = "structural/no-dangling-refs"
           /\ checked[k].severity = SeverityOf(DanglingLevel)
           /\ checked[k].targets = <<RelationTarget(r)>>
           /\ HasFix(checked[k])
           /\ checked[k].fix.changes
                = <<[type |-> "delete", target |-> RelationTarget(r)]>>
           /\ AfterFix =>
                /\ Includes(applied, CheckedRef(k))
                /\ ~Includes(failed, CheckedRef(k))
      /\ AfterFix => FindIndex(WorkingDoc.relations, RelationTarget(r).id) = 0
      /\ pc = "rechecked" =>
           \A k \in Targeting(rechecked, r) : rechecked[k].message[1] # "Edge start"

\* Scenario A ran to the second check with the rule enabled as error, and
\* that check reported the edge that started at the deleted relation.
C18_Witness ==
  /\ pc = "rechecked"
  /\ ScenarioA(1)
  /\ DanglingLevel = "error"
  /\ \E k \in DOMAIN checked : checked[k].severity = "error"
  /\ rechecked # <<>>

\* ------------------------------------------------------------------------
\* Properties of no-overlapping-nodes
\* ------------------------------------------------------------------------
OverlapRuleId == "visual/no-overlapping-nodes"

OverlapEnabled ==
  \E i \in DOMAIN config.rules :
    config.rules[i][1] = OverlapRuleId /\ LevelOf(config.rules[i]) # "off"

\* The pairs a < b of node positions of the document whose nodes both have a
\* position and a size that is not zero.
SizedPairs(doc) ==
  IF doc.nodes.t # "arr" THEN {}
  ELSE {p \in (DOMAIN doc.nodes.e) \X (DOMAIN doc.nodes.e) :
          /\ p[1] < p[2]
          /\ \A k \in {p[1], p[2]} :
               /\ HasGeometry(doc.nodes.e[k])
               /\ Coord(doc.nodes.e[k], "size", 1) # 0
               /\ Coord(doc.nodes.e[k], "size", 2) # 0}

\* The boxes of the two nodes share a region of positive area.
PositiveOverlap(a, b) ==
  /\ Min(Coord(a, "position", 1) + Coord(a, "size", 1),
         Coord(b, "position", 1) + Coord(b, "size", 1))
       > Max(Coord(a, "position", 1), Coord(b, "position", 1))
  /\ Min(Coord(a, "position", 2) + Coord(a, "size", 2),
         Coord(b, "position", 2) + Coord(b, "size", 2))
       > Max(Coord(a, "position", 2), Coord(b, "position", 2))

IdsOf(targets) == {targets[k].id : k \in DOMAIN targets}

\* The diagnostics of the rule for the pair of ids.
PairReports(a, b) ==
  {k \in DOMAIN checked :
     /\ checked[k].ruleId = OverlapRuleId
     /\ IdsOf(checked[k].targets) = {GetProp(a, "id"), GetProp(b, "id")}}

RelatedIds(diagnostic) ==
  IF "related" \in DOMAIN diagnostic
  THEN {diagnostic.related[k].target.id : k \in DOMAIN diagnostic.related}
  ELSE {}

\* C19: with no-overlapping-nodes enabled, every pair of sized nodes whose
\* boxes overlap with positive area gets exactly one diagnostic, which lists
\* both node ids in related; a pair whose boxes touch or are disjoint gets
\* none.
C19_OnePerOverlappingPair ==
  (Checked /\ OverlapEnabled) =>
    \A p \in SizedPairs(input) :
      LET a == input.nodes.e[p[1]]
          b == input.nodes.e[p[2]]
      IN IF PositiveOverlap(a, b)
         THEN /\ Cardinality(PairReports(a, b)) = 1
              /\ \A k \in PairReports(a, b) :
                   RelatedIds(checked[k]) = {GetProp(a, "id"), GetProp(b, "id")}
         ELSE PairReports(a, b) = {}

\* ------------------------------------------------------------------------
\* createOverlay called by the caller on diagnostics of its own
\* ------------------------------------------------------------------------
PlainDiag ==
  [ruleId |-> "core/unique-ids", severity |-> "error",
   message |-> <<"Duplicate", "1">>,
   targets |-> <<ElementTarget("node", Str(1))>>]

EmptyVisualDiag ==
  [ruleId |-> "custom/a", severity |-> "info", message |-> <<"a">>,
   targets |-> <<ElementTarget("node", Str(1))>>, visual |-> <<>>]

HighlightDiag ==
  OverlapDiag(Str(1), Str(2), [x |-> 0, y |-> 0, width |-> 10, height |-> 10],
              [x |-> 3, y |-> 5, width |-> 10, height |-> 10])

GuideDiag ==
  PositionalDiag(Str(1), "vertical", 3, Node(2, 103, 200),
                 Arr(<<Num(103), Num(100)>>))

LabelMarkerDiag ==
  [ruleId |-> "custom/b", severity |-> "warning", message |-> <<"b">>,
   targets |-> <<ElementTarget("node", Str(2))>>,
   visual |-> <<[type |-> "label", position |-> Arr(<<Num(8), Num(9)>>),
                 text |-> <<"b">>],
                [type |-> "marker", position |-> Arr(<<Num(8), Num(9)>>),
                 style |-> "error"]>>]

\* An annotation of a type the switch of annotationToNodes does not know.
ArrowDiag ==
  [ruleId |-> "custom/b", severity |-> "warning", message |-> <<"c">>,
   targets |-> <<ElementTarget("node", Str(2))>>,
   visual |-> <<[type |-> "arrow"]>>]

OverlayDiagnostics ==
  {PlainDiag, EmptyVisualDiag, HighlightDiag, GuideDiag, LabelMarkerDiag,
   ArrowDiag}

\* createOverlay(diagnostics)
OverlayCall ==
  /\ pc = "idle"
  /\ \E diags \in SeqsUpTo(OverlayDiagnostics, MaxDiags) :
       LET made == CreateOverlay(diags)
       IN /\ Install([Idle EXCEPT !.pc = IF made.threw THEN "raised"
                                         ELSE "made"])
          /\ checked' = diags
          /\ overlay' = made
  /\ config' = NoConfig
  /\ rechecked' = <<>>
  /\ UNCHANGED <<ruleRegistry, answer>>

\* createOverlay(diagnostics) again, on the list of the call before.
OverlayAgain ==
  /\ pc \in {"made", "remade"}
  /\ Install([Idle EXCEPT !.pc = "remade"])
  /\ overlay' = CreateOverlay(checked)
  /\ UNCHANGED <<ruleRegistry, config, checked, rechecked, answer>>

NextOverlay ==
  \/ OverlayCall
  \/ OverlayAgain
  \/ Release

SpecOverlay == Init /\ [][NextOverlay]_vars

\* ------------------------------------------------------------------------
\* Properties of the overlay
\* ------------------------------------------------------------------------
Made == pc = "made"

\* The ids of the generated nodes and of the generated resources, in the
\* order of the arrays.
NodeIds(made) ==
  [k \in DOMAIN made.doc.nodes.e |-> GetProp(made.doc.nodes.e[k], "id")]

ResourceIds(made) ==
  [k \in DOMAIN made.doc.resources.e |->
     GetProp(made.doc.resources.e[k], "id")]

NumberOf(id) == id.v[3]

Increasing(ids) ==
  \A i, j \in DOMAIN ids : i < j => NumberOf(ids[i]) < NumberOf(ids[j])

\* A diagnostic of the same shape (the same annotation types in the same
\* order) with other content.
OtherContent(diagnostic) ==
  LET base == [ruleId |-> "x", severity |-> "hint", message |-> <<"x">>,
               targets |-> <<>>]
      other(a) ==
        CASE a.type = "highlight" ->
               [type |-> "highlight", style |-> "info",
                bounds |-> [x |-> 1, y |-> 1, width |-> 1, height |-> 1]]
          [] a.type = "guideline" ->
               [type |-> "guideline", orientation |-> "horizontal",
                position |-> 1]
          [] a.type = "label" ->
               [type |-> "label", position |-> Arr(<<Num(1), Num(1)>>),
                text |-> <<"x">>]
          [] a.type = "marker" ->
               [type |-> "marker", position |-> Arr(<<Num(1), Num(1)>>)]
          [] OTHER -> a
  IN IF HasVisual(diagnostic)
     THEN [ruleId |-> "x", severity |-> "hint", message |-> <<"x">>,
           targets |-> <<>>,
           visual |-> [k \in DOMAIN diagnostic.visual |->
                         other(diagnostic.visual[k])]]
     ELSE base

\* C20: the ids of the nodes and resources one createOverlay call generates
\* are pairwise distinct; their numbers are 0, 1, 2, ... in the order the
\* elements are generated (a node before the resource it refers to), one per
\* element, and do not depend on the content of the diagnostics.
C20_IdsFromOneCounter ==
  Made =>
    LET nodeIds == NodeIds(overlay)
        resourceIds == ResourceIds(overlay)
        ids == nodeIds \o resourceIds
        shaped == CreateOverlay([k \in DOMAIN checked |->
                                   OtherContent(checked[k])])
    IN /\ \A i, j \in DOMAIN ids : i # j => ids[i] # ids[j]
       /\ {NumberOf(ids[k]) : k \in DOMAIN ids} = 0..(Len(ids) - 1)
       /\ Increasing(nodeIds)
       /\ Increasing(resourceIds)
       /\ \A k \in DOMAIN nodeIds :
            GetProp(overlay.doc.nodes.e[k], "resource") # Undef =>
              \E r \in DOMAIN resourceIds :
                /\ resourceIds[r] = GetProp(overlay.doc.nodes.e[k], "resource")
                /\ NumberOf(resourceIds[r]) = NumberOf(nodeIds[k]) + 1
       /\ [k \in DOMAIN nodeIds |-> NumberOf(nodeIds[k])]
            = [k \in DOMAIN NodeIds(shaped) |-> NumberOf(NodeIds(shaped)[k])]
       /\ [k \in DOMAIN resourceIds |-> NumberOf(resourceIds[k])]
            = [k \in DOMAIN ResourceIds(shaped) |->
                 NumberOf(ResourceIds(shaped)[k])]

\* The same diagnostic of a rule twice and a diagnostic without annotations:
\* two highlight nodes and three message resources were generated.
C20_Witness ==
  /\ Made
  /\ checked = <<HighlightDiag, PlainDiag, HighlightDiag>>
  /\ Len(overlay.doc.nodes.e) = 2
  /\ Len(overlay.doc.resources.e) = 3

\* The number of annotations of a diagnostic.
VisualCount(diagnostic) ==
  IF HasVisual(diagnostic) THEN Len(diagnostic.visual) ELSE 0

\* The number of annotations of the first n diagnostics.
RECURSIVE VisualsBefore(_, _)
VisualsBefore(diags, n) ==
  IF n = 0 THEN 0
  ELSE VisualsBefore(diags, n - 1) + VisualCount(diags[n])

\* The prefix of the id createOverlay gives the node of an annotation.
PrefixOfType(type) ==
  CASE type = "highlight" -> "highlight"
    [] type = "guideline" -> "guide"
    [] type = "label" -> "label"
    [] type = "marker" -> "marker"

\* The resources no node of the overlay refers to, in the order of the array.
MessageOnly(made) ==
  SelectSeq(made.doc.resources.e,
            LAMBDA r : \A k \in DOMAIN made.doc.nodes.e :
                         GetProp(made.doc.nodes.e[k], "resource")
                           # GetProp(r, "id"))

\* The diagnostics without annotation, in the order of the list.
Unannotated(diags) == SelectSeq(diags, LAMBDA d : VisualCount(d) = 0)

\* C21: in the overlay createOverlay returns, the nodes are those of the
\* annotations, one each, diagnostic after diagnostic and annotation after
\* annotation; the resources no node refers to are those of the diagnostics
\* without annotation (no visual field, or an empty one), one each, carrying
\* the diagnostic's rule and message; so every diagnostic has an element.
C21_NoDiagnosticDropped ==
  Made =>
    LET nodes == overlay.doc.nodes.e
        messages == MessageOnly(overlay)
        plain == Unannotated(checked)
    IN /\ Len(nodes) = VisualsBefore(checked, Len(checked))
       /\ \A i \in DOMAIN checked : \A k \in 1..VisualCount(checked[i]) :
            GetProp(nodes[VisualsBefore(checked, i - 1) + k], "id").v[2]
              = PrefixOfType(checked[i].visual[k].type)
       /\ Len(messages) = Len(plain)
       /\ \A k \in DOMAIN plain :
            messages[k].f.representations.e[1].f.content
              = Str(<<plain[k].ruleId, plain[k].message>>)

\* A diagnostic without the visual field, one with an empty list, and one
\* with two annotations went into one overlay.
C21_Witness ==
  /\ Made
  /\ checked = <<PlainDiag, LabelMarkerDiag, EmptyVisualDiag>>
  /\ Len(overlay.doc.nodes.e) = 2
  /\ Len(MessageOnly(overlay)) = 2

\* C22: a createOverlay call on the diagnostic list of the call before
\* returns the same document as that call, ids included.
C22_SameOverlayAgain ==
  [][pc' = "remade" =>
       /\ checked' = checked
       /\ ~overlay'.threw
       /\ overlay'.doc = overlay.doc]_vars

\* A second call on a list that made three ids: they start at 0 again.
C22_Witness ==
  /\ pc = "remade"
  /\ checked = <<HighlightDiag, GuideDiag>>
  /\ [k \in 1..2 |-> NumberOf(NodeIds(overlay)[k])] = <<0, 2>>

\* A configuration that enables the two rules about ids and resources.
ValidityConfig ==
  [rules |-> <<<<UniqueIds.id, Level("error")>>,
              <<ValidResourceRefs.id, Level("error")>>>>,
   settings |-> <<>>]

\* C23: the overlay createOverlay returns has the ocif field, each of its
\* nodes that names a resource names one of the overlay's resources, and a
\* check of the overlay with unique-ids and valid-resource-refs enabled
\* returns no diagnostic.
C23_OverlayIsValidDocument ==
  Made =>
    /\ overlay.doc.ocif = OcifUri
    /\ overlay.doc.nodes.t = "arr"
    /\ overlay.doc.resources.t = "arr"
    /\ \A k \in DOMAIN overlay.doc.nodes.e :
         GetProp(overlay.doc.nodes.e[k], "resource") # Undef =>
           \E r \in DOMAIN overlay.doc.resources.e :
             GetProp(overlay.doc.resources.e[r], "id")
               = GetProp(overlay.doc.nodes.e[k], "resource")
    /\ Check(BuiltinRules, overlay.doc, ValidityConfig).diagnostics = <<>>

\* An overlay with a label node and a highlight node, each with its resource.
C23_Witness ==
  /\ Made
  /\ checked = <<LabelMarkerDiag, HighlightDiag>>
  /\ Len(overlay.doc.resources.e) = 2
  /\ Cardinality({k \in DOMAIN overlay.doc.nodes.e :
                    GetProp(overlay.doc.nodes.e[k], "resource") # Undef}) = 2

\* ------------------------------------------------------------------------
\* The registry queried after registrations
\* ------------------------------------------------------------------------
NoRule == [id |-> ""]

\* getRule(id)
GetRule(registry, id) ==
  IF RegistryIndex(registry, id) = 0 THEN NoRule
  ELSE registry[RegistryIndex(registry, id)]

\* getAllRules()
GetAllRules(registry) == registry

Registerable == CustomRules \cup ExportedRules

\* registerRule(rule), by a caller that then queries the registry.
RegisterCall ==
  /\ pc \in {"idle", "registered"}
  /\ \E rule \in Registerable :
       /\ Install([Idle EXCEPT !.pc = "registered", !.input = rule])
       /\ ruleRegistry' = RegistrySet(ruleRegistry, rule)
  /\ UNCHANGED <<config, checked, rechecked, overlay, answer>>

NextRegistry ==
  \/ RegisterCall
  \/ Release

SpecRegistry == Init /\ [][NextRegistry]_vars

\* ------------------------------------------------------------------------
\* Properties of the registry
\* ------------------------------------------------------------------------
RegistryIds == RuleIds \cup {rule.id : rule \in Registerable}

BuiltinIds == {BuiltinRules[k].id : k \in DOMAIN BuiltinRules}

\* getAllRules holds one rule for each id it holds.
OnePerId(registry) ==
  \A i, j \in DOMAIN GetAllRules(registry) :
    GetAllRules(registry)[i].id = GetAllRules(registry)[j].id => i = j

\* C24: before any registration by the caller getRule finds the built-in
\* rules only; a registerRule(rule) call makes getRule(rule.id) return that
\* rule, leaves getRule of every other id as it was, and getAllRules then
\* holds the rule, one rule per id, and for every id what getRule returns.
C24_RegisterAddsOrOverwrites ==
  /\ \A id \in RegistryIds \ BuiltinIds : GetRule(ruleRegistry, id) = NoRule
  /\ [][pc' = "registered" =>
          /\ GetRule(ruleRegistry', input'.id) = input'
          /\ \A id \in RegistryIds \ {input'.id} :
               GetRule(ruleRegistry', id) = GetRule(ruleRegistry, id)
          /\ OnePerId(ruleRegistry')
          /\ \A k \in DOMAIN GetAllRules(ruleRegistry') :
               GetRule(ruleRegistry', GetAllRules(ruleRegistry')[k].id)
                 = GetAllRules(ruleRegistry')[k]
          /\ \A id \in RegistryIds :
               GetRule(ruleRegistry', id) # NoRule =>
                 \E k \in DOMAIN GetAllRules(ruleRegistry') :
                   GetAllRules(ruleRegistry')[k] = GetRule(ruleRegistry', id)]_vars

\* custom/b was registered, then custom/a, then another rule with the id
\* custom/b, which took the place of the first.
C24_Witness ==
  /\ pc = "registered"
  /\ input.id = "custom/b"
  /\ input.mutates
  /\ Len(ruleRegistry) = Len(BuiltinRules) + 2
  /\ ruleRegistry[Len(BuiltinRules) + 1] = input
  /\ ruleRegistry[Len(BuiltinRules) + 2].id = "custom/a"
  /\ GetRule(ruleRegistry, "custom/c") = NoRule

\* ------------------------------------------------------------------------
\* The queries of a context (context.ts)
\* ------------------------------------------------------------------------
\* The element a lookup returns: the one at the position found, or undefined.
ElementAt(coll, i) == IF i = 0 THEN Undef ELSE coll.e[i]

\* element.data?.find((e) => e.type === type), as a 1-based index.
ExtensionIndex(element, type) ==
  LET data == GetProp(element, "data")
  IN IF data.t # "arr" THEN 0
     ELSE LET hits == {i \in 1..Len(data.e) : GetProp(data.e[i], "type") = type}
          IN IF hits = {} THEN 0 ELSE CHOOSE i \in hits : \A j \in hits : i <= j

\* element.data?.some((ext) => ext.type === type) ?? false
HasExtension(element, type) ==
  LET data == GetProp(element, "data")
  IN IF data.t # "arr" THEN FALSE
     ELSE \E i \in 1..Len(data.e) : GetProp(data.e[i], "type") = type

GetExtension(element, type) ==
  ElementAt(GetProp(element, "data"), ExtensionIndex(element, type))

\* Two nodes with the id 1, a relation with that id, too, that has two edge
\* blocks and a parent-child block, a relation without data; no resources.
DocH ==
  Doc(Arr(<<Node(1, 0, 0), Node(2, 5, 5), Node(1, 7, 7)>>),
      Arr(<<Obj([id |-> Str(1),
                 data |-> Arr(<<EdgeRelation(0, 1, 2).f.data.e[1],
                                ParentChildRelation(0, 1, 2).f.data.e[1],
                                EdgeRelation(0, 2, 1).f.data.e[1]>>)]),
            Obj([id |-> Str(3)])>>),
      Undef)

IndexDocuments == {DocA, DocB, DocC, DocD, DocE, DocF, DocG, DocH}

IndexIds == {Str(1), Str(2), Str(3), Str(4), Str(9)}

ExtensionTypes == {Str(EdgeType), Str(GroupType), Str(ParentChildType)}

\* The nodes and relations of a document.
ElementsOf(doc) ==
  UNION {IF doc[coll].t = "arr"
         THEN {doc[coll].e[k] : k \in DOMAIN doc[coll].e} ELSE {}
           : coll \in {"nodes", "relations"}}

\* createContext(doc), then getNode(id), getRelation(id) and getResource(id).
Lookup ==
  /\ pc = "idle"
  /\ \E doc \in IndexDocuments, id \in IndexIds :
       LET ctx == CreateContext(doc, <<>>)
       IN /\ Install([Idle EXCEPT !.pc = "queried", !.heap = <<ctx.document>>,
                                  !.canvas = 1, !.input = doc])
          /\ answer' =
               [query |-> "lookup", id |-> id,
                node |-> ElementAt(doc.nodes, GetNode(ctx, id)),
                relation |-> ElementAt(doc.relations, GetRelation(ctx, id)),
                resource |-> ElementAt(doc.resources, GetResource(ctx, id))]
  /\ UNCHANGED <<ruleRegistry, config, checked, rechecked, overlay>>

\* createContext(doc), then hasExtension(element, type) and
\* getExtension(element, type) for an element of the document.
ExtensionQuery ==
  /\ pc = "idle"
  /\ \E doc \in IndexDocuments, type \in ExtensionTypes :
       \E element \in ElementsOf(doc) :
         LET ctx == CreateContext(doc, <<>>)
         IN /\ Install([Idle EXCEPT !.pc = "queried",
                                    !.heap = <<ctx.document>>,
                                    !.canvas = 1, !.input = doc])
            /\ answer' = [query |-> "extension", element |-> element,
                          type |-> type,
                          has |-> HasExtension(element, type),
                          get |-> GetExtension(element, type)]
  /\ UNCHANGED <<ruleRegistry, config, checked, rechecked, overlay>>

NextIndex ==
  \/ Lookup
  \/ ExtensionQuery
  \/ Release

SpecIndex == Init /\ [][NextIndex]_vars

\* ------------------------------------------------------------------------
\* Properties of the queries
\* ------------------------------------------------------------------------
Queried == pc = "queried"

\* result is the first of the sequence that has the value at the key, or
\* undefined when none has.
FirstWith(elements, key, value, result) ==
  IF \A p \in DOMAIN elements : GetProp(elements[p], key) # value
  THEN result = Undef
  ELSE \E p \in DOMAIN elements :
         /\ elements[p] = result
         /\ GetProp(result, key) = value
         /\ \A q \in 1..(p - 1) : GetProp(elements[q], key) # value

ListOf(value) == IF value.t = "arr" THEN value.e ELSE <<>>

\* C25: getNode, getRelation and getResource return the first element of
\* their collection with the id, or nothing (also without the collection);
\* getExtension returns the first block of the type, hasExtension tells
\* whether it returns one; the document is the same after the queries.
C25_GraphIndex ==
  Queried =>
    /\ heap[canvas] = input
    /\ answer.query = "lookup" =>
         /\ FirstWith(ListOf(input.nodes), "id", answer.id, answer.node)
         /\ FirstWith(ListOf(input.relations), "id", answer.id, answer.relation)
         /\ FirstWith(ListOf(input.resources), "id", answer.id, answer.resource)
    /\ answer.query = "extension" =>
         /\ FirstWith(ListOf(GetProp(answer.element, "data")), "type",
                      answer.type, answer.get)
         /\ answer.has <=> answer.get # Undef

\* The id is that of two nodes and a relation, and no resources exist.
C25_Witness ==
  /\ Queried
  /\ input = DocH
  /\ answer.query = "lookup"
  /\ answer.id = Str(1)
  /\ answer.node = Node(1, 0, 0)
  /\ answer.relation # Undef
  /\ answer.resource = Undef

\* ------------------------------------------------------------------------
\* Properties of the Changes of a Fix
\* ------------------------------------------------------------------------
\* The Changes from the i-th on, each applied to the document the one before
\* it produced: whether all of them applied, and the document then.
RECURSIVE OneByOne(_, _, _, _)
OneByOne(h, cur, changes, i) ==
  IF i > Len(changes) THEN [ok |-> TRUE, doc |-> h[cur]]
  ELSE LET r == ApplyChange(h, cur, changes[i])
       IN IF r.threw \/ ~r.success THEN [ok |-> FALSE, doc |-> h[cur]]
          ELSE OneByOne(r.heap, r.canvas, changes, i + 1)

InsertThenMove == Len(DiagObjects) - 1

\* C26: an attempt marks the diagnostic applied exactly when each Change of
\* its Fix, taken in list order, applies to the document the Change before it
\* produced, and the working document is then the last of these documents;
\* otherwise the working document and applied stay as they were.  A Fix that
\* inserts a node and then moves it is applied wherever it is attempted.
C26_ChangesInListOrder ==
  /\ [][(AttemptStep /\ last'.outcome # "skipped") =>
          LET each == OneByOne(<<WorkingDoc>>, 1,
                               Deref(last'.ref).fix.changes, 1)
          IN IF last'.outcome = "applied"
             THEN /\ each.ok
                  /\ WorkingDoc' = each.doc
                  /\ applied' = Append(applied, last'.ref)
             ELSE /\ ~each.ok
                  /\ WorkingDoc' = WorkingDoc
                  /\ applied' = applied]_vars
  /\ [](Returned /\ Includes(diagnostics, InsertThenMove)
          => Includes(applied, InsertThenMove))

\* The Fix that inserts node 7 and moves it was applied: the returned
\* document has the node at the place it was moved to.
C26_Witness ==
  /\ Returned
  /\ diagnostics = <<InsertThenMove>>
  /\ applied = <<InsertThenMove>>
  /\ input = DocA
  /\ WorkingDoc.nodes.e[3] = Node(7, 3, 3)

\* ------------------------------------------------------------------------
\* Properties of diagnostics that depend on each other
\* ------------------------------------------------------------------------
\* applyFix does not resolve the Fix of a on the document, and resolves it on
\* the document the Fix of b makes of it.
NeedsFirst(doc, a, b) ==
  LET alone == ApplyFix(<<doc>>, 1, Deref(a))
      first == ApplyFix(<<doc>>, 1, Deref(b))
  IN /\ a # b
     /\ HasFix(Deref(a))
     /\ HasFix(Deref(b))
     /\ ~alone.threw
     /\ ~alone.success
     /\ ~first.threw
     /\ first.success
     /\ ApplyFix(first.heap, first.canvas, Deref(a)).success

Resize(id, w, h) ==
  [type |-> "resize", nodeId |-> Str(id), to |-> Arr(<<Num(w), Num(h)>>)]

Set(type, id, path, value) ==
  [type |-> "set", target |-> Target(type, id, path), value |-> value]

Delete(type, id, path) ==
  [type |-> "delete", target |-> Target(type, id, path)]

Insert(collection, element) ==
  [type |-> "insert", collection |-> collection, element |-> element]

\* Changes of every type, on elements that exist once, twice or not at all.
SingleChanges ==
  {Move(1, 7, 8), Move(2, 7, 8), Move(9, 7, 8),
   Resize(1, 6, 5), Resize(4, 6, 5), Resize(9, 6, 5),
   Set("node", 1, <<"position", "0">>, Num(7)),
   Set("node", 2, <<"label">>, Str(5)),
   Set("node", 1, <<"size", "1">>, Num(7)),
   Set("relation", 3, <<"data", "0", "end">>, Str(2)),
   Set("relation", 1, <<"data", "1", "parent">>, Str(2)),
   Set("resource", 4, <<"id">>, Str(7)),
   Set("node", 1, <<>>, Num(7)),
   Delete("node", 1, <<>>), Delete("node", 2, <<>>),
   Delete("relation", 3, <<>>), Delete("relation", 1, <<>>),
   Delete("resource", 4, <<>>), Delete("node", 9, <<>>),
   Delete("node", 1, <<"position">>), Delete("node", 1, <<"position", "0">>),
   Delete("relation", 1, <<"data", "0">>),
   Insert("nodes", Node(1, 0, 0)), Insert("relations", EdgeRelation(6, 1, 2)),
   Insert("resources", Resource(7))}

ChangeDocuments == {DocA, DocB, DocC, DocD, DocG, DocH}

\* applyChange(canvas, change), the step applyFix takes for every Change.
ChangeCall ==
  /\ pc = "idle"
  /\ \E doc \in ChangeDocuments, change \in SingleChanges :
       LET r == ApplyChange(<<doc>>, 1, change)
       IN /\ Install([Idle EXCEPT !.pc = "changed", !.heap = r.heap,
                                  !.canvas = 1, !.currentCanvas = r.canvas,
                                  !.input = doc])
          /\ answer' = [query |-> "change", change |-> change,
                        success |-> r.success, threw |-> r.threw]
  /\ UNCHANGED <<ruleRegistry, config, checked, rechecked, overlay>>

NextChange == ChangeCall \/ Release

SpecChange == Init /\ [][NextChange]_vars

\* ------------------------------------------------------------------------
\* Properties of one Change
\* ------------------------------------------------------------------------
Collections == {"nodes", "relations", "resources"}

\* The fields of the document other than the collection coll.
RestUnchanged(old, new, coll) ==
  /\ new.ocif = old.ocif
  /\ new.schemas = old.schemas
  /\ \A other \in Collections \ {coll} : new[other] = old[other]

\* Position p holds the first element of the list with the id.
IsFirstWithId(elements, id, p) ==
  /\ p \in DOMAIN elements
  /\ GetProp(elements[p], "id") = id
  /\ \A q \in 1..(p - 1) : GetProp(elements[q], "id") # id

\* The two values differ at most in what the path addresses.
RECURSIVE EqualOutside(_, _, _)
EqualOutside(old, new, path) ==
  IF path = <<>> THEN TRUE
  ELSE /\ new.t = old.t
       /\ CASE old.t = "obj" ->
                 /\ \A k \in (DOMAIN old.f \cup DOMAIN new.f) \ {path[1]} :
                      /\ k \in DOMAIN old.f
                      /\ k \in DOMAIN new.f
                      /\ new.f[k] = old.f[k]
                 /\ (Len(path) > 1 =>
                       /\ path[1] \in DOMAIN old.f
                       /\ path[1] \in DOMAIN new.f
                       /\ EqualOutside(old.f[path[1]], new.f[path[1]],
                                       Tail(path)))
            [] old.t = "arr" ->
                 /\ Len(new.e) = Len(old.e)
                 /\ \A k \in DOMAIN old.e :
                      IF k = ParseInt(path[1]) + 1
                      THEN EqualOutside(old.e[k], new.e[k], Tail(path))
                      ELSE new.e[k] = old.e[k]
            [] OTHER -> new = old

\* The value the path leads to.
RECURSIVE ValueAt(_, _)
ValueAt(value, path) ==
  IF path = <<>> THEN value ELSE ValueAt(GetProp(value, path[1]), Tail(path))

\* Only what the path addresses in the first element of coll with the id
\* has changed between the documents, and it now holds the value.
OneFieldWritten(old, new, coll, id, path, value) ==
  /\ RestUnchanged(old, new, coll)
  /\ old[coll].t = "arr"
  /\ new[coll].t = "arr"
  /\ Len(new[coll].e) = Len(old[coll].e)
  /\ \E p \in DOMAIN old[coll].e :
       /\ IsFirstWithId(old[coll].e, id, p)
       /\ \A q \in DOMAIN old[coll].e \ {p} : new[coll].e[q] = old[coll].e[q]
       /\ EqualOutside(old[coll].e[p], new[coll].e[p], path)
       /\ ValueAt(new[coll].e[p], path) = value

\* s is what is left of t once the elements with the id are taken out, the
\* others in their order.
RECURSIVE LeftWithout(_, _, _)
LeftWithout(s, t, id) ==
  IF t = <<>> THEN s = <<>>
  ELSE IF GetProp(Head(t), "id") = id THEN LeftWithout(s, Tail(t), id)
  ELSE s # <<>> /\ Head(s) = Head(t) /\ LeftWithout(Tail(s), Tail(t), id)

AllWithIdRemoved(old, new, coll, id) ==
  /\ RestUnchanged(old, new, coll)
  /\ new[coll].t = old[coll].t
  /\ LeftWithout(ListOf(new[coll]), ListOf(old[coll]), id)

OneAppended(old, new, coll, element) ==
  /\ RestUnchanged(old, new, coll)
  /\ new[coll].t = "arr"
  /\ Len(new[coll].e) = Len(ListOf(old[coll])) + 1
  /\ new[coll].e[Len(new[coll].e)] = element
  /\ \A k \in DOMAIN ListOf(old[coll]) : new[coll].e[k] = old[coll].e[k]

\* A delete with a path leaves every other element as it was.
OneElementCut(old, new, coll, id) ==
  /\ RestUnchanged(old, new, coll)
  /\ Len(ListOf(new[coll])) = Len(ListOf(old[coll]))
  /\ \E p \in DOMAIN ListOf(old[coll]) :
       /\ IsFirstWithId(old[coll].e, id, p)
       /\ \A q \in DOMAIN old[coll].e \ {p} : new[coll].e[q] = old[coll].e[q]

TouchesOnlyAddressed(old, change, new) ==
  CASE change.type = "move" ->
         OneFieldWritten(old, new, "nodes", change.nodeId, <<"position">>,
                         change.to)
    [] change.type = "resize" ->
         OneFieldWritten(old, new, "nodes", change.nodeId, <<"size">>,
                         change.to)
    [] change.type = "set" ->
         OneFieldWritten(old, new, CollectionOf(change.target.type),
                         change.target.id, change.target.path, change.value)
    [] change.type = "delete" ->
         IF change.target.path = <<>>
         THEN AllWithIdRemoved(old, new, CollectionOf(change.target.type),
                               change.target.id)
         ELSE OneElementCut(old, new, CollectionOf(change.target.type),
                            change.target.id)
    [] change.type = "insert" ->
         OneAppended(old, new, CollectionOf(change.collection),
                     change.element)

Changed == pc = "changed" /\ answer.query = "change"

\* C28: an applied Change touches only what it addresses.  A move, a resize
\* and a set write the addressed field of the first element with the target
\* id in the target collection, a delete without a path takes out the
\* elements of that collection with the id, an insert puts one element at the
\* end of its collection; every other element, the other collections, ocif
\* and schemas, and the order of the elements that stay are as in the input,
\* and the input itself is as it was.
C28_ChangeTouchesOnlyAddressed ==
  (Changed /\ answer.success) =>
    /\ heap[canvas] = input
    /\ TouchesOnlyAddressed(input, answer.change, heap[currentCanvas])

\* The delete of node 1 has been applied to the document with two nodes of
\* id 1: node 2 alone is left.
C28_Witness ==
  /\ Changed
  /\ answer.success
  /\ input = DocH
  /\ answer.change = Delete("node", 1, <<>>)
  /\ Len(heap[currentCanvas].nodes.e) = 1

\* ------------------------------------------------------------------------
\* unique-ids on documents with shared ids
\* ------------------------------------------------------------------------
MaxCarriers == 2

CarriedIds == {1, 2}

\* A collection of up to n elements with ids of CarriedIds; absent when
\* empty.
Carriers(make(_), n) ==
  {IF q = <<>> THEN Undef ELSE Arr([k \in DOMAIN q |-> make(q[k])])
     : q \in SeqsUpTo(CarriedIds, n)}

PlainNode(id) == Node(id, 0, 0)

\* Documents whose nodes, relations and resources carry ids 1 and 2 in every
\* arrangement: an id is carried by no element or by up to five of them.
IdDocuments ==
  {Doc(nodes, relations, resources) :
     nodes \in Carriers(PlainNode, MaxCarriers),
     relations \in Carriers(Resource, MaxCarriers),
     resources \in Carriers(Resource, 1)}

UniqueIdsConfig(level) ==
  [rules |-> <<<<UniqueIds.id, Level(level)>>>>, settings |-> <<>>]

\* check(canvas, {rules: {"structural/unique-ids": level}})
UniqueIdsCall ==
  /\ pc = "idle"
  /\ \E doc \in IdDocuments, level \in {"warn", "error"} :
       CheckDone(doc, UniqueIdsConfig(level),
                 Check(ruleRegistry, doc, UniqueIdsConfig(level)))
  /\ UNCHANGED <<ruleRegistry, answer>>

NextIds == UniqueIdsCall \/ Release

SpecIds == Init /\ [][NextIds]_vars

\* ------------------------------------------------------------------------
\* Properties of unique-ids
\* ------------------------------------------------------------------------
KindOf(coll) ==
  CASE coll = "nodes" -> "node"
    [] coll = "relations" -> "relation"
    [] coll = "resources" -> "resource"

\* How many elements of the collection carry the id.
CarriedBy(doc, coll, id) ==
  Cardinality({k \in DOMAIN ListOf(doc[coll]) :
                 GetProp(doc[coll].e[k], "id") = id})

CarriedTimes(doc, id) ==
  CarriedBy(doc, "nodes", id) + CarriedBy(doc, "relations", id)
    + CarriedBy(doc, "resources", id)

\* How many of the diagnostics target an element of the kind with the id.
Reported(diags, kind, id) ==
  Cardinality({k \in DOMAIN diags :
                 diags[k].targets = <<ElementTarget(kind, id)>>})

UniqueIdsChecked ==
  /\ pc = "checked"
  /\ Len(config.rules) = 1
  /\ config.rules[1][1] = UniqueIds.id
  /\ config.rules[1][2].level # "off"

\* C29: unique-ids reports per occurrence.  An id carried by one element of
\* the document yields no diagnostic; an id carried by k >= 2 elements across
\* nodes, relations and resources yields k diagnostics, as many targeting
\* each kind as elements of that kind carry the id.
C29_OnePerCarryingElement ==
  UniqueIdsChecked =>
    /\ \A k \in DOMAIN checked :
         /\ checked[k].ruleId = UniqueIds.id
         /\ Len(checked[k].targets) = 1
         /\ checked[k].targets[1].id \in {Str(id) : id \in CarriedIds}
    /\ \A id \in {Str(i) : i \in CarriedIds} :
         LET times == CarriedTimes(input, id)
             about == SelectSeq(checked, LAMBDA d : d.targets[1].id = id)
         IN /\ Len(about) = IF times >= 2 THEN times ELSE 0
            /\ \A coll \in {"nodes", "relations", "resources"} :
                 Reported(checked, KindOf(coll), id) =
                   IF times >= 2 THEN CarriedBy(input, coll, id) ELSE 0

\* Id 1 is carried by a node, a relation and a resource, id 2 by one
\* relation: three diagnostics, all about id 1, one of them for the resource.
C29_Witness ==
  /\ UniqueIdsChecked
  /\ CarriedBy(input, "nodes", Str(1)) = 1
  /\ CarriedBy(input, "relations", Str(1)) = 1
  /\ CarriedBy(input, "resources", Str(1)) = 1
  /\ CarriedBy(input, "nodes", Str(2)) = 0
  /\ CarriedBy(input, "relations", Str(2)) = 1
  /\ Len(checked) = 3
  /\ Reported(checked, "resource", Str(1)) = 1

\* ------------------------------------------------------------------------
\* Alignment on both axes: check, then fix
\* ------------------------------------------------------------------------
\* How far node 2 lies from node 1 on an axis: aligned, within the default
\* threshold, or far off.
AlignOffsetsX == {0, 3, 20}

AlignOffsetsY == {0, 2, 30}

\* Two nodes of the same size, and with a third one further down.
AlignDocuments ==
  {Doc(Arr(<<SizedNode(1, 0, 0, 10, 10), SizedNode(2, dx, dy, 10, 10)>>
           \o rest), Undef, Undef) :
     dx \in AlignOffsetsX, dy \in AlignOffsetsY,
     rest \in {<<>>, <<SizedNode(3, 4, 60, 10, 10)>>}}

AlignConfigs ==
  {[rules |-> <<<<NodesAligned.id, level>>>>, settings |-> <<>>] :
     level \in {Level("warn"), LevelWith("error", <<<<"threshold", 2>>>>)}}

\* check(canvas, {rules: {"visual/nodes-aligned": level}})
CheckAlignment ==
  /\ pc = "idle"
  /\ \E doc \in AlignDocuments, c \in AlignConfigs :
       CheckDone(doc, c, Check(ruleRegistry, doc, c))
  /\ UNCHANGED <<ruleRegistry, answer>>

NextAlign ==
  \/ CheckAlignment
  \/ FixChecked
  \/ FixRoundBegin
  \/ FixAttempt
  \/ FixRoundEnd
  \/ FixReturn
  \/ Release

SpecAlign == Init /\ [][NextAlign]_vars

\* ------------------------------------------------------------------------
\* Properties of alignment on both axes
\* ------------------------------------------------------------------------
IsAlignDiag(diagnostic, orientation) ==
  /\ diagnostic.ruleId = NodesAligned.id
  /\ HasFix(diagnostic)
  /\ "visual" \in DOMAIN diagnostic
  /\ diagnostic.visual[1].orientation = orientation

\* Positions i and j of the checked diagnostics hold the vertical and the
\* horizontal report of one node.
BothAxes(i, j) ==
  /\ IsAlignDiag(checked[i], "vertical")
  /\ IsAlignDiag(checked[j], "horizontal")
  /\ checked[i].targets = checked[j].targets

MovedTo(diagnostic) == diagnostic.fix.changes[1].to

\* C30: when check has reported a vertical and a horizontal alignment
\* diagnostic for one node and fix has applied both, the node is at the x
\* the first moves it to and at the y the second moves it to.
C30_BothCorrectionsKept ==
  Returned =>
    \A i, j \in DOMAIN checked :
      (/\ BothAxes(i, j)
       /\ Includes(diagnostics, CheckedRef(i))
       /\ Includes(applied, CheckedRef(i))
       /\ Includes(applied, CheckedRef(j))) =>
        LET at == FindIndex(WorkingDoc.nodes, checked[i].targets[1].id)
        IN /\ at # 0
           /\ GetProp(WorkingDoc.nodes.e[at], "position") =
                Arr(<<MovedTo(checked[i]).e[1], MovedTo(checked[j]).e[2]>>)

====
